---- MODULE Spec2Model ----
(***************************************************************************)
(* Model of the pulumi-cloud-import discovery engines.                      *)
(*                                                                         *)
(* The repository holds several programs that share one design: a catalog  *)
(* of resource types is split round-robin over N goroutines (shard         *)
(* workers), every worker lists its types page by page and sends one       *)
(* importSpec per discovered resource on a shared channel (importChan), a  *)
(* closer goroutine waits on the WaitGroup and closes the channel, and the *)
(* main goroutine ranges over the channel, appends every record to         *)
(* imports.Resources and optionally calls ReadResource / pulumi import.    *)
(*                                                                         *)
(* Strings that the code inspects character by character (identifiers,     *)
(* namespaces, kinds) are sequences of one-character strings.              *)
(***************************************************************************)
EXTENDS Integers, Sequences, FiniteSets, TLC

(***************************************************************************)
(* Bounds of the model.                                                     *)
(***************************************************************************)
\* largest worker count (PULUMI_CLOUD_IMPORT_WORKERS) the model runs with
MaxWorkers == 2
\* number of results (items of the workers' listing calls, groups that are
\* not recorded, errors of listing calls and of ReadResource calls) the
\* provider returns in one run, at most; the groups that are recorded are
\* bounded by MaxWorkers
MaxResults == 2
\* number of pages one listing call returns, at most
MaxPages == 2
\* length of the strings clearString is applied to on its own, at most
MaxLen == 3

(***************************************************************************)
(* Program constants.                                                       *)
(***************************************************************************)
\* make(chan importSpec, 100000)
ChanCap == 100000
\* getConcurrentWorkers: the value returned when the variable is no integer
DefaultWorkers == 10
\* client.DefaultRetryer{NumMaxRetries: 1000}
NumMaxRetries == 1000

\* the programs: the concurrent engines of pulumi-cloud-import-aws ("aws"),
\* of the Kubernetes program ("k8s") and of the parent-aware Azure program
\* ("azure"), the Azure program that returns after its OIDC check
\* ("azure1"), and the sequential pulumi-insights-import ("insights")
Variants == {"aws", "k8s", "azure", "azure1", "insights"}
\* Mode: ImportMode (write import.json), ReadMode (ctx.ReadResource per
\* record), IncrementalImportMode / --incremental (pulumi import per record)
Modes == {"import", "read", "incremental"}
\* the modes each program can be started in
ModesOf(v) ==
  CASE v = "azure1" -> Modes
    [] v = "insights" -> {"import", "incremental"}
    [] OTHER -> {"import", "read"}

(***************************************************************************)
(* Strings.                                                                 *)
(***************************************************************************)
Letters ==
  {"a","b","c","d","e","f","g","h","i","j","k","l","m","n","o","p","q","r","s",
   "t","u","v","w","x","y","z","A","B","C","D","E","F","G","H","I","J","K","L",
   "M","N","O","P","Q","R","S","T","U","V","W","X","Y","Z"}
Digits == {"0","1","2","3","4","5","6","7","8","9"}

\* a faulty variant of the regular expression, which would keep "-"
ClearStringKeepsBroken(c) == c \in Letters \cup Digits \cup {" ", "-"}
\* the characters nonAlphanumericRegex `[^a-zA-Z0-9 ]+` does not match
ClearStringKeeps(c) == c \in Letters \cup Digits \cup {" "}

\* clearString: ReplaceAllString(str, "") removes every run of matching
\* characters, i.e. every character outside [a-zA-Z0-9 ]
clearString(str) == SelectSeq(str, ClearStringKeeps)

(***************************************************************************)
(* The AWS catalog: keys of pkgSpec.Resources, "pkg:ns:kind", as the triple *)
(* strings.Split(k, ":") makes of them.                                     *)
(***************************************************************************)
TypeX == <<"aws-native", <<"s","3">>, <<"B">>>>
TypeY == <<"aws-native", <<"e","c","2">>, <<"V">>>>
\* stands for an entry of resourcesToSkip, e.g. "aws-native:efs:FileSystem"
TypeSkip == <<"aws-native", <<"e","f","s">>, <<"F">>>>

AwsCatalog == {TypeX, TypeY, TypeSkip}
\* a schema with a single resource type
AwsSmallCatalog == {TypeX}
resourcesToSkip == {TypeSkip}

\* csharpInfo.Namespaces: the alias table of the schema's C# language block
csharpNamespaces == [ns \in {<<"s","3">>} |-> <<"S","3">>]

\* a faulty variant, which would never consult the alias table
awsNamespaceRaw(k) == k[2]
\* namespace, ok := csharpInfo.Namespaces[parts[1]]; if !ok { namespace = parts[1] }
awsNamespace(k) ==
  IF k[2] \in DOMAIN csharpNamespaces THEN csharpNamespaces[k[2]] ELSE k[2]

\* cloudControlType := fmt.Sprintf("AWS::%s::%s", namespace, parts[2])
cloudControlType(k) == <<"A","W","S",":",":">> \o awsNamespace(k) \o <<":",":">> \o k[3]

(***************************************************************************)
(* What a listing call can return.  An item of a page has an Identifier    *)
(* pointer, which may be nil.                                              *)
(***************************************************************************)
Idents == { <<"a">>, <<"a","-">>, <<"b">> }
NilItem == [isNil |-> TRUE, Identifier |-> <<>>]
Items == { [isNil |-> FALSE, Identifier |-> i] : i \in Idents } \cup {NilItem}

(***************************************************************************)
(* The Kubernetes catalog: clientset.Discovery().ServerPreferredResources() *)
(* returns a slice of groups, each with a GroupVersion string and the      *)
(* resources of that group.                                                 *)
(***************************************************************************)
GroupCore == [GroupVersion |-> <<"v","1">>, APIResources |-> <<"pods", "nodes">>]
GroupApps == [GroupVersion |-> <<"a","/","v">>, APIResources |-> <<"deployments">>]
GroupBad  == [GroupVersion |-> <<"a","/","b","/","c">>, APIResources |-> <<"things">>]
apiResources == <<GroupCore, GroupApps, GroupBad>>

\* number of "/" in a string
RECURSIVE CountSlash(_)
CountSlash(s) ==
  IF s = <<>> THEN 0
  ELSE (IF Head(s) = "/" THEN 1 ELSE 0) + CountSlash(Tail(s))

\* position of the first "/" of a string that has one
FirstSlash(s) == CHOOSE i \in 1..Len(s) : s[i] = "/" /\ \A j \in 1..(i-1) : s[j] # "/"

\* schema.ParseGroupVersion: "" and "/" give the empty GroupVersion, no "/"
\* gives {"", version}, one "/" gives {group, version}, more is an error
ParseGroupVersion(gv) ==
  IF gv = <<>> \/ gv = <<"/">> THEN [err |-> FALSE, Group |-> <<>>, Version |-> <<>>]
  ELSE IF CountSlash(gv) = 0 THEN [err |-> FALSE, Group |-> <<>>, Version |-> gv]
  ELSE IF CountSlash(gv) = 1
       THEN [err |-> FALSE, Group |-> SubSeq(gv, 1, FirstSlash(gv) - 1),
             Version |-> SubSeq(gv, FirstSlash(gv) + 1, Len(gv))]
  ELSE [err |-> TRUE, Group |-> <<>>, Version |-> <<>>]

\* the Kind the API server reports for the items of a resource
KindOf(res) ==
  CASE res = "pods" -> "Pod"
    [] res = "nodes" -> "Node"
    [] res = "deployments" -> "Deployment"
    [] OTHER -> "Thing"

\* token := func(x): "kubernetes:" + gv + ":" + Kind, gv = "core/"+Version when
\* the group is empty and Group/Version otherwise
k8sToken(x) ==
  <<"kubernetes",
    IF x.Group = <<>> THEN <<"c","o","r","e","/">> \o x.Version
                      ELSE x.Group \o <<"/">> \o x.Version,
    x.Kind>>

\* id := func(x): Namespace/Name for a namespaced object, Name otherwise
k8sId(x) ==
  IF x.Namespace # <<>> THEN x.Namespace \o <<"/">> \o x.Name ELSE x.Name

\* the objects a List call can return: namespaced or not, named "a"
K8sObjects ==
  { [Namespace |-> ns, Name |-> nm] : ns \in { <<>>, <<"n">> }, nm \in { <<"a">> } }

(***************************************************************************)
(* Azure.  The first pass lists the resource groups of the subscription;    *)
(* one worker per group then lists the group's resources.                   *)
(***************************************************************************)
ResourceGroupType == <<"azure-native", "resources", "ResourceGroup">>

\* the last element of strings.Split(s, "/")
RECURSIVE LastSegment(_)
LastSegment(s) ==
  IF CountSlash(s) = 0 THEN s ELSE LastSegment(SubSeq(s, FirstSlash(s) + 1, Len(s)))

\* what rgPager returns: a group with its ID (nil or not), Name and whether
\* its Location is the configured one
GroupG == <<"/","g">>
GroupH == <<"/","h","-">>
GroupItems ==
  { [isNil |-> FALSE, ID |-> GroupG, Name |-> LastSegment(GroupG), here |-> TRUE],
    [isNil |-> FALSE, ID |-> GroupH, Name |-> LastSegment(GroupH), here |-> TRUE],
    [isNil |-> FALSE, ID |-> GroupG, Name |-> LastSegment(GroupG), here |-> FALSE],
    [isNil |-> TRUE, ID |-> <<>>, Name |-> <<>>, here |-> TRUE] }

\* *resource.Type of a listed resource, "Microsoft.<namespace>/<last>"
NativeStorage == [namespace |-> "Storage", last |-> "storageAccounts"]
NativeOther == [namespace |-> "Foo", last |-> "bars"]

\* strings.ToLower(namespace) and pluralize.Singular(strings.Title(last)), on
\* the names above
ToLower(ns) == IF ns = "Storage" THEN "storage" ELSE "foo"
SingularTitle(last) == IF last = "storageAccounts" THEN "StorageAccount" ELSE "Bar"

\* typeToken := fmt.Sprintf("azure-native:%s:%s", strings.ToLower(namespace), resourceType)
azureTypeToken(t) == <<"azure-native", ToLower(t.namespace), SingularTitle(t.last)>>

\* pkgSpec.Resources of the azure-native schema
azureSchema == { <<"azure-native", "storage", "StorageAccount">>, ResourceGroupType }

\* var resourcesToSkip = map[string]bool{} of the Azure program
azureResourcesToSkip == {}

\* what the pager of a group returns: a resource with its ID (nil or not) and Type
ResA == <<"/","g","/","a">>
ResB == <<"/","g","/","a","-">>
AzureItems ==
  { [isNil |-> FALSE, ID |-> ResA, Type |-> NativeStorage],
    [isNil |-> FALSE, ID |-> ResB, Type |-> NativeStorage],
    [isNil |-> FALSE, ID |-> ResA, Type |-> NativeOther],
    [isNil |-> TRUE, ID |-> <<>>, Type |-> NativeStorage] }

(***************************************************************************)
(* Configuration.                                                           *)
(***************************************************************************)
\* os.Getenv("PULUMI_CLOUD_IMPORT_WORKERS") as strconv.Atoi sees it: not an
\* integer (unset, "abc"), or an integer
EnvValues ==
  { [isInt |-> FALSE, val |-> 0] } \cup { [isInt |-> TRUE, val |-> n] : n \in -1..MaxWorkers }

\* getConcurrentWorkers
getConcurrentWorkers(e) == IF ~e.isInt THEN DefaultWorkers ELSE e.val

(***************************************************************************)
(* Partitioning: `for k := range catalog { pkgChunks[index] = append(...);  *)
(* index++; index = index % chunks }`.                                      *)
(***************************************************************************)
EmptyChunks(n) == [i \in 1..n |-> <<>>]

\* a faulty variant of the loop, which would assign instead of append when
\* index wraps to 0
RECURSIVE RoundRobinLosing(_, _, _, _, _)
RoundRobinLosing(cat, n, i, acc, index) ==
  IF i > Len(cat) THEN acc
  ELSE RoundRobinLosing(cat, n, i + 1,
         [acc EXCEPT ![index + 1] = IF index = 0 THEN <<cat[i]>> ELSE Append(@, cat[i])],
         (index + 1) % n)

\* the loop, from position i of the iteration order on; Go indexes from 0
RECURSIVE RoundRobin(_, _, _, _, _)
RoundRobin(cat, n, i, acc, index) ==
  IF i > Len(cat) THEN acc
  ELSE RoundRobin(cat, n, i + 1,
         [acc EXCEPT ![index + 1] = Append(@, cat[i])],
         (index + 1) % n)

\* a faulty variant, which would never advance index
PartitionAllFirst(cat, n) == [EmptyChunks(n) EXCEPT ![1] = cat]
\* the shards the faulty loop would give
PartitionBroken(cat, n) == RoundRobinLosing(cat, n, 1, EmptyChunks(n), 0)
\* pkgChunks after the loop
Partition(cat, n) == RoundRobin(cat, n, 1, EmptyChunks(n), 0)

\* the orders `range` over a Go map can take
Orders(S) ==
  { f \in [1..Cardinality(S) -> S] : \A i, j \in 1..Cardinality(S) : f[i] = f[j] => i = j }

\* the catalog in iteration order: a map for AWS, a slice for Kubernetes
CatalogOrders(v, cat) == IF v = "aws" THEN Orders(cat) ELSE {apiResources}

RECURSIVE Flatten(_)
Flatten(ss) == IF ss = <<>> THEN <<>> ELSE Head(ss) \o Flatten(Tail(ss))

\* the listing units a worker goes through, in order: the types of its chunk
\* (AWS), the resources of the groups of its chunk (Kubernetes), the one
\* resource group the goroutine was started for (Azure), the types of the
\* catalog (pulumi-insights-import)
Units(v, chunk) ==
  IF v \in {"aws", "azure", "insights"} THEN chunk
  ELSE Flatten([g \in 1..Len(chunk) |->
                 [r \in 1..Len(chunk[g].APIResources) |->
                    [gv |-> chunk[g].GroupVersion, res |-> chunk[g].APIResources[r]]]])

(***************************************************************************)
(* State.                                                                   *)
(***************************************************************************)
VARIABLES
  variant,     \* which program runs
  mode,        \* ImportMode, ReadMode or --incremental
  env,         \* PULUMI_CLOUD_IMPORT_WORKERS
  main,        \* where the main goroutine (buildImportSpec) is
  chunks,      \* chunks := getConcurrentWorkers()
  pkgChunks,   \* the shards
  resourceGroups, \* Azure: the group records of the first pass
  spawned,     \* i of the loop that starts the workers
  wg,          \* sync.WaitGroup counter
  closer,      \* where the goroutine `wg.Wait(); close(importChan)` is
  closed,      \* importChan is closed
  queue,       \* importChan's buffer
  imports,     \* imports.Resources
  wpc,         \* per worker: where it is
  widx,        \* per worker: index of the listing unit it is at
  wpage,       \* per worker: number of the page it is processing
  wmore,       \* per worker: the listing has a page after that one
  seen,        \* per worker: its seen map
  budget,      \* results the provider may still return (bound)
  \* history
  order,       \* the iteration order the partitioning loop saw
  listed,      \* <<type, identity>> of the items listing calls returned
  relisted,    \* those a listing call returned more than once
  listCalls,   \* the units a listing call was made for
  failed,      \* the units whose listing call failed
  faulted,     \* the workers that panicked
  published,   \* number of sends on importChan
  closeCount,  \* number of close(importChan)
  sentClosed,  \* a send on the closed channel happened
  calls,       \* ReadResource and `pulumi import` calls: <<type, name, id>>
  received,    \* the records the consumer loop took off importChan, in order
  callErrs,    \* the positions in calls of the calls that returned an error
  creates,     \* the resources the program registered for creation: <<type, name>>
  bulk,        \* number of `pulumi import -f import.json` runs
  resourceNumber, \* pulumi-insights-import: resourceNumber of the type at hand
  totalResources, \* pulumi-insights-import: totalResources
  err,         \* AWS: the err of buildImportSpec, which every worker assigns
  warnings,    \* the listing errors printed: <<unit of the printer, the err printed>>
  catalog,     \* AWS: the keys of pkgSpec.Resources
  sent,        \* per worker: the records it sent on importChan, in order
  clientUse,   \* <<client, worker>>: the worker made a listing call through the client
  typeNames,   \* AWS: <<k, TypeName of the ListResourcesInput>> of the listing calls made
  skipLog,     \* Azure: the "skipping resource" lines printed: <<*resource.Type, typeToken>>
  \* the functions of the program applied on their own
  str,         \* the argument of clearString
  once,        \* clearString(str)
  twice,       \* clearString(clearString(str))
  pstep,       \* how far the applications have got
  \* one request of the AWS SDK with the CustomRetryer
  status,      \* req.HTTPResponse.StatusCode of the last response
  defaultRetry, \* what r.DefaultRetryer.ShouldRetry(req) returns for it
  shouldRetry, \* what CustomRetryer.ShouldRetry(req) returned for it
  retryCount,  \* req.RetryCount
  rstep        \* where the request is

vars == <<variant, mode, env, main, chunks, pkgChunks, resourceGroups, spawned, wg, closer, closed,
          queue, imports, wpc, widx, wpage, wmore, seen, budget, order, listed,
          relisted, listCalls, failed, faulted, published, closeCount, sentClosed, calls,
          received, callErrs, creates, bulk, resourceNumber, totalResources,
          err, warnings, catalog, sent, clientUse, skipLog, typeNames, str, once, twice, pstep,
          status, defaultRetry, shouldRetry, retryCount, rstep>>

retryVars == <<status, defaultRetry, shouldRetry, retryCount, rstep>>
pureVars == <<str, once, twice, pstep, retryVars>>
seqVars == <<creates, bulk, resourceNumber, totalResources>>
errVars == <<err, warnings>>
logVars == <<sent, clientUse, skipLog, typeNames>>
config == <<variant, mode, env, catalog>>
mainVars == <<main, chunks, pkgChunks, resourceGroups, spawned, order>>
workerVars == <<wpc, widx, wpage, wmore, seen>>
histVars == <<listed, relisted, listCalls, failed, faulted>>

\* the history of the items returned, after one more
Returned(p) ==
  /\ listed' = listed \cup {p}
  /\ relisted' = IF p \in listed THEN relisted \cup {p} ELSE relisted

Workers == 1..MaxWorkers

Init ==
  /\ variant \in Variants
  /\ mode \in ModesOf(variant)
  /\ env \in IF variant \in {"azure", "azure1", "insights"} THEN { [isInt |-> FALSE, val |-> 0] }
             ELSE { e \in EnvValues : getConcurrentWorkers(e) <= MaxWorkers }
  /\ catalog \in IF variant = "aws" THEN {AwsCatalog, AwsSmallCatalog} ELSE {AwsCatalog}
  /\ main = "start"
  /\ chunks = 0
  /\ pkgChunks = <<>>
  /\ resourceGroups = <<>>
  /\ spawned = 0
  /\ wg = 0
  /\ closer = "idle"
  /\ closed = FALSE
  /\ queue = <<>>
  /\ imports = <<>>
  /\ wpc = [w \in Workers |-> "idle"]
  /\ widx = [w \in Workers |-> 1]
  /\ wpage = [w \in Workers |-> 0]
  /\ wmore = [w \in Workers |-> FALSE]
  /\ seen = [w \in Workers |-> {}]
  /\ budget = MaxResults
  /\ order = <<>>
  /\ listed = {}
  /\ relisted = {}
  /\ listCalls = {}
  /\ failed = {}
  /\ faulted = {}
  /\ published = 0
  /\ closeCount = 0
  /\ sentClosed = FALSE
  /\ calls = <<>>
  /\ received = <<>>
  /\ callErrs = {}
  /\ creates = <<>>
  /\ bulk = 0
  /\ resourceNumber = 0
  /\ totalResources = 0
  /\ err = {}
  /\ warnings = {}
  /\ sent = [w \in Workers |-> <<>>]
  /\ clientUse = {}
  /\ skipLog = <<>>
  /\ typeNames = {}
  /\ str = <<>>
  /\ once = <<>>
  /\ twice = <<>>
  /\ pstep = "off"
  /\ status = 0
  /\ defaultRetry = FALSE
  /\ shouldRetry = FALSE
  /\ retryCount = 0
  /\ rstep = "off"

(***************************************************************************)
(* The main goroutine up to the consumer loop.                              *)
(***************************************************************************)
\* chunks := getConcurrentWorkers(); pkgChunks := make(..., chunks); the
\* partitioning loop.  make panics on a negative length and pkgChunks[0]
\* panics on an empty slice: nothing recovers a panic of the main goroutine.
MainPartition ==
  /\ main = "start"
  /\ variant \in {"aws", "k8s"}
  /\ chunks' = getConcurrentWorkers(env)
  /\ IF getConcurrentWorkers(env) <= 0
       THEN /\ main' = "crashed"
            /\ UNCHANGED <<pkgChunks, order>>
       ELSE /\ \E o \in CatalogOrders(variant, catalog) :
                 /\ order' = o
                 /\ pkgChunks' = Partition(o, getConcurrentWorkers(env))
            /\ main' = "spawn"
  /\ UNCHANGED <<config, pureVars, logVars, errVars, seqVars, resourceGroups, spawned, wg, closer, closed, queue, imports,
                 workerVars, budget, histVars, published, closeCount, sentClosed, calls, received,
                 callErrs>>

\* one turn of `for i := 0; i < chunks; i++ { wg.Add(1); go func(...) }`
MainSpawn ==
  /\ main = "spawn"
  /\ spawned < chunks
  /\ spawned' = spawned + 1
  /\ wg' = wg + 1
  /\ wpc' = [wpc EXCEPT ![spawned + 1] = "next"]
  /\ UNCHANGED <<config, pureVars, logVars, errVars, seqVars, main, chunks, pkgChunks, resourceGroups, order, closer, closed, queue,
                 imports, widx, wpage, wmore, seen, budget, histVars, published,
                 closeCount, sentClosed, calls, received,
                 callErrs>>

\* `go func() { wg.Wait(); close(importChan) }()`, then the consumer loop
MainStartCloser ==
  /\ main = "spawn"
  /\ spawned = chunks
  /\ closer' = "waiting"
  /\ main' = "drain"
  /\ UNCHANGED <<config, pureVars, logVars, errVars, seqVars, chunks, pkgChunks, resourceGroups, order, spawned, wg, closed, queue,
                 imports, workerVars, budget, histVars, published, closeCount,
                 sentClosed, calls, received,
                 callErrs>>

(***************************************************************************)
(* Azure: the first pass of the main goroutine.                             *)
(***************************************************************************)
\* the importSpec of a resource group
groupRecord(g) ==
  [Type |-> ResourceGroupType, Name |-> clearString(g.Name), ID |-> g.ID, Parent |-> <<>>]

\* one turn of `for _, resource := range page.ResourceGroupListResult.Value`:
\* a group of another location is skipped, *resource.ID panics on nil (in the
\* main goroutine, where nothing recovers), another group is appended
AzGroupItem(g) ==
  /\ main = "start"
  /\ variant = "azure"
  /\ IF ~g.here
       THEN /\ budget > 0
            /\ budget' = budget - 1
            /\ UNCHANGED <<main, resourceGroups, listed, relisted>>
       ELSE IF g.isNil
         THEN /\ budget > 0
              /\ budget' = budget - 1
              /\ main' = "crashed"
              /\ UNCHANGED <<resourceGroups, listed, relisted>>
         ELSE /\ Len(resourceGroups) < MaxWorkers
              /\ resourceGroups' = Append(resourceGroups, groupRecord(g))
              /\ Returned(<<ResourceGroupType, g.ID>>)
              /\ UNCHANGED <<main, budget>>
  /\ UNCHANGED <<config, pureVars, logVars, errVars, seqVars, chunks, pkgChunks, spawned, order, wg, closer, closed, queue,
                 imports, workerVars, listCalls, failed, faulted, published,
                 closeCount, sentClosed, calls, received,
                 callErrs>>

\* rgPager.NextPage fails: log.Fatalf prints and calls os.Exit(1)
AzGroupsFail ==
  /\ main = "start"
  /\ variant = "azure"
  /\ budget > 0
  /\ budget' = budget - 1
  /\ main' = "exited"
  /\ UNCHANGED <<config, pureVars, logVars, errVars, seqVars, chunks, pkgChunks, resourceGroups, spawned, order, wg, closer,
                 closed, queue, imports, workerVars, histVars, published,
                 closeCount, sentClosed, calls, received,
                 callErrs>>

\* rgPager.More() is false: importChan := make(chan importSpec, len(resourceGroups))
AzGroupsDone ==
  /\ main = "start"
  /\ variant = "azure"
  /\ main' = "publish"
  /\ UNCHANGED <<config, pureVars, logVars, errVars, seqVars, chunks, pkgChunks, resourceGroups, spawned, order, wg, closer,
                 closed, queue, imports, workerVars, budget, histVars, published,
                 closeCount, sentClosed, calls, received,
                 callErrs>>

\* a faulty variant: the Azure channel with a buffer of one record
CapacityOne == IF variant = "azure" THEN 1 ELSE ChanCap
\* the capacity of importChan
Capacity == IF variant = "azure" THEN Len(resourceGroups) ELSE ChanCap

\* one turn of `for _, resourceGroup := range resourceGroups { importChan <- resourceGroup }`;
\* nothing receives yet, so the groups sent so far are the buffer
AzPublishGroup ==
  /\ main = "publish"
  /\ Len(queue) < Len(resourceGroups)
  /\ Len(queue) < Capacity
  /\ queue' = Append(queue, resourceGroups[Len(queue) + 1])
  /\ published' = published + 1
  /\ UNCHANGED <<config, pureVars, logVars, errVars, seqVars, mainVars, wg, closer, closed, imports, workerVars, budget,
                 histVars, closeCount, sentClosed, calls, received,
                 callErrs>>

\* a faulty variant, which would start the goroutines before the groups are sent
AzPublishDoneEarly ==
  /\ main = "publish"
  /\ chunks' = Len(resourceGroups)
  /\ pkgChunks' = [i \in 1..Len(resourceGroups) |-> <<resourceGroups[i].ID>>]
  /\ main' = "spawn"
  /\ UNCHANGED <<config, pureVars, logVars, errVars, seqVars, resourceGroups, spawned, order, wg, closer, closed, queue,
                 imports, workerVars, budget, histVars, published, closeCount,
                 sentClosed, calls, received,
                 callErrs>>

\* a faulty variant, which would start the goroutines after the first group
\* was sent
AzPublishDoneAfterFirst ==
  /\ main = "publish"
  /\ Len(queue) >= 1 \/ resourceGroups = <<>>
  /\ chunks' = Len(resourceGroups)
  /\ pkgChunks' = [i \in 1..Len(resourceGroups) |-> <<resourceGroups[i].ID>>]
  /\ main' = "spawn"
  /\ UNCHANGED <<config, pureVars, logVars, errVars, seqVars, resourceGroups, spawned, order, wg, closer, closed, queue,
                 imports, workerVars, budget, histVars, published, closeCount,
                 sentClosed, calls, received,
                 callErrs>>

\* chunks := len(resourceGroups); goroutine i gets resourceGroups[i].ID
AzPublishDone ==
  /\ main = "publish"
  /\ Len(queue) = Len(resourceGroups)
  /\ chunks' = Len(resourceGroups)
  /\ pkgChunks' = [i \in 1..Len(resourceGroups) |-> <<resourceGroups[i].ID>>]
  /\ main' = "spawn"
  /\ UNCHANGED <<config, pureVars, logVars, errVars, seqVars, resourceGroups, spawned, order, wg, closer, closed, queue,
                 imports, workerVars, budget, histVars, published, closeCount,
                 sentClosed, calls, received,
                 callErrs>>

\* the process is alive and buildImportSpec has not returned
Running == main \in {"spawn", "drain"}

(***************************************************************************)
(* Shard workers.                                                           *)
(***************************************************************************)
MyUnits(w) == Units(variant, pkgChunks[w])
AtUnit(w) == wpc[w] = "next" /\ widx[w] <= Len(MyUnits(w))
Unit(w) == MyUnits(w)[widx[w]]

\* a faulty variant without the `continue`
SkipsNothing(v, u) == FALSE
\* the `continue` before the listing call: `if _, ok := resourcesToSkip[k]`
\* (AWS), `gv, err := schema.ParseGroupVersion(...); if err != nil` (Kubernetes)
Skips(v, u) ==
  CASE v = "aws" -> u \in resourcesToSkip
    [] v = "k8s" -> ParseGroupVersion(u.gv).err
    [] OTHER -> FALSE

\* a faulty variant without the deferred recover(): the panic ends the process
FaultUnrecovered(w) ==
  /\ main' = "crashed"
  /\ faulted' = faulted \cup {w}
  /\ UNCHANGED <<wg, wpc, wpage, wmore>>
\* a faulty variant without the deferred wg.Done()
FaultNotSignalled(w) ==
  /\ wpc' = [wpc EXCEPT ![w] = "done"]
  /\ wpage' = [wpage EXCEPT ![w] = 0]
  /\ wmore' = [wmore EXCEPT ![w] = FALSE]
  /\ faulted' = faulted \cup {w}
  /\ UNCHANGED <<wg, main>>
\* a panic in a worker: the deferred wg.Done() runs, then the deferred
\* recover() swallows the panic and the goroutine ends
Fault(w) ==
  /\ wg' = wg - 1
  /\ wpc' = [wpc EXCEPT ![w] = "done"]
  /\ wpage' = [wpage EXCEPT ![w] = 0]
  /\ wmore' = [wmore EXCEPT ![w] = FALSE]
  /\ faulted' = faulted \cup {w}
  /\ UNCHANGED main

\* a faulty variant: a buffer that would hand out the newest record first
SendInFront(w, rec) ==
  IF closed
    THEN /\ Fault(w)
         /\ sentClosed' = TRUE
         /\ UNCHANGED <<queue, published, sent>>
    ELSE /\ Len(queue) < Capacity
         /\ queue' = <<rec>> \o queue
         /\ published' = published + 1
         /\ sent' = [sent EXCEPT ![w] = Append(@, rec)]
         /\ UNCHANGED <<wg, wpc, wpage, wmore, faulted, main, sentClosed>>

\* `importChan <- resource`: blocks while the buffer is full, panics on a
\* closed channel
Send(w, rec) ==
  IF closed
    THEN /\ Fault(w)
         /\ sentClosed' = TRUE
         /\ UNCHANGED <<queue, published, sent>>
    ELSE /\ Len(queue) < Capacity
         /\ queue' = Append(queue, rec)
         /\ published' = published + 1
         /\ sent' = [sent EXCEPT ![w] = Append(@, rec)]
         /\ UNCHANGED <<wg, wpc, wpage, wmore, faulted, main, sentClosed>>

\* a faulty variant, in which the goroutine of an empty chunk would panic
WorkerFinishEmptyFaults(w) ==
  /\ Running
  /\ wpc[w] = "next"
  /\ widx[w] > Len(MyUnits(w))
  /\ wg' = wg - 1
  /\ faulted' = IF MyUnits(w) = <<>> THEN faulted \cup {w} ELSE faulted
  /\ wpc' = [wpc EXCEPT ![w] = "done"]
  /\ UNCHANGED <<config, pureVars, logVars, errVars, seqVars, mainVars, closer, closed, queue, imports, widx, wpage, wmore,
                 seen, budget, listed, relisted, listCalls, failed, published, closeCount, sentClosed, calls, received,
                 callErrs>>

\* the chunk is exhausted: "worker i of n completed", then the deferred wg.Done()
WorkerFinish(w) ==
  /\ Running
  /\ wpc[w] = "next"
  /\ widx[w] > Len(MyUnits(w))
  /\ wg' = wg - 1
  /\ wpc' = [wpc EXCEPT ![w] = "done"]
  /\ UNCHANGED <<config, pureVars, logVars, errVars, seqVars, mainVars, closer, closed, queue, imports, widx, wpage, wmore,
                 seen, budget, histVars, published, closeCount, sentClosed, calls, received,
                 callErrs>>

\* the unit is skipped before any listing call
WorkerSkip(w) ==
  /\ Running
  /\ AtUnit(w)
  /\ Skips(variant, Unit(w))
  /\ widx' = [widx EXCEPT ![w] = @ + 1]
  /\ UNCHANGED <<config, pureVars, logVars, errVars, seqVars, mainVars, wg, closer, closed, queue, imports, wpc, wpage, wmore,
                 seen, budget, histVars, published, closeCount, sentClosed, calls, received,
                 callErrs>>

\* what a failed listing call does to the process: the error is printed (AWS)
\* or dropped (Kubernetes) and the loop goes on; Azure's log.Fatalf calls
\* os.Exit(1), which ends the process with all its goroutines
AfterListingError == IF variant = "azure" THEN "exited" ELSE main

\* The client worker w lists through: `client := cloudcontrolapi.New(sess)`
\* inside the goroutine (AWS, client w); resourceClient (Azure) and
\* dynamicClient (Kubernetes) are made once by the main goroutine before the
\* workers start (client 0)
client(w) == IF variant = "aws" THEN w ELSE 0

\* whether the listing has a page after page n: Kubernetes' List returns one
\* list; the model gives a listing MaxPages pages at most
MorePages(n) == IF variant = "k8s" \/ n >= MaxPages THEN {FALSE} ELSE BOOLEAN

\* The listing call of worker w for unit u has returned e: {u} for the error
\* of that call and {} for nil.  AWS: `err = client.ListResourcesPages(`
\* assigns the err declared by `pkgSpec, err := getAWSNativeSchema()`, the
\* one variable all workers share, and `if err != nil` reads it in a later
\* step.  Azure: log.Fatalf prints the error.  Kubernetes: `if err != nil {
\* continue }`, the print is commented out.
ListingEnded(w, u, e) ==
  IF variant = "aws"
    THEN /\ err' = e
         /\ wpc' = [wpc EXCEPT ![w] = "check"]
         /\ UNCHANGED <<widx, warnings>>
    ELSE /\ wpc' = [wpc EXCEPT ![w] = "next"]
         /\ widx' = [widx EXCEPT ![w] = @ + 1]
         /\ warnings' = IF variant = "azure" /\ e # {}
                          THEN warnings \cup {<<u, e>>} ELSE warnings
         /\ UNCHANGED err

\* `if err != nil { fmt.Println(err) }` of the AWS worker, and its loop goes
\* to the next type
WorkerCheckErr(w) ==
  /\ Running
  /\ wpc[w] = "check"
  /\ warnings' = IF err # {} THEN warnings \cup {<<Unit(w), err>>} ELSE warnings
  /\ wpc' = [wpc EXCEPT ![w] = "next"]
  /\ widx' = [widx EXCEPT ![w] = @ + 1]
  /\ UNCHANGED <<config, pureVars, logVars, seqVars, mainVars, wg, closer, closed, queue, imports,
                 wpage, wmore, seen, budget, histVars, published, closeCount, sentClosed, calls,
                 received, callErrs, err>>

\* params := &cloudcontrolapi.ListResourcesInput{..., TypeName:
\* aws.String(cloudControlType)} of the listing call for type k
TypeNamed(k) ==
  typeNames' = IF variant \in {"aws", "insights"}
                 THEN typeNames \cup {<<k, cloudControlType(k)>>}
                 ELSE typeNames

\* the listing call fails before it returns a page
WorkerListFail(w) ==
  /\ Running
  /\ AtUnit(w)
  /\ ~Skips(variant, Unit(w))
  /\ budget > 0
  /\ budget' = budget - 1
  /\ listCalls' = listCalls \cup {Unit(w)}
  /\ clientUse' = clientUse \cup {<<client(w), w>>}
  /\ TypeNamed(Unit(w))
  /\ failed' = failed \cup {Unit(w)}
  /\ ListingEnded(w, Unit(w), {Unit(w)})
  /\ main' = AfterListingError
  /\ UNCHANGED <<config, pureVars, sent, skipLog, seqVars, chunks, pkgChunks, resourceGroups, spawned, order, wg, closer, closed, queue, imports, wpage, wmore,
                 seen, listed, relisted, faulted, published, closeCount,
                 sentClosed, calls, received,
                 callErrs>>

\* the listing call returns its first page (AWS, Azure) or its list (Kubernetes)
WorkerListPage(w) ==
  /\ Running
  /\ AtUnit(w)
  /\ ~Skips(variant, Unit(w))
  /\ listCalls' = listCalls \cup {Unit(w)}
  /\ clientUse' = clientUse \cup {<<client(w), w>>}
  /\ TypeNamed(Unit(w))
  /\ wpc' = [wpc EXCEPT ![w] = "page"]
  /\ wpage' = [wpage EXCEPT ![w] = 1]
  /\ \E m \in MorePages(1) : wmore' = [wmore EXCEPT ![w] = m]
  /\ UNCHANGED <<config, pureVars, sent, skipLog, errVars, seqVars, mainVars, wg, closer, closed, queue, imports, widx,
                 seen, budget, listed, relisted, failed, faulted, published, closeCount,
                 sentClosed, calls, received,
                 callErrs>>

\* the unit whose pages worker w is going through
CurUnit(w) == MyUnits(w)[widx[w]]

\* the importSpec the AWS worker builds for identifier id of type k
awsRecord(k, id) ==
  [Type |-> k, Name |-> clearString(awsNamespace(k) \o k[3] \o id), ID |-> id,
   Parent |-> <<>>]

\* a faulty variant, whose key would be the identifier as it is
awsSeenKeyRaw(id) == id
\* `key := clearString(*r.Identifier)`: the key of the AWS worker's seen map
awsSeenKey(id) == clearString(id)

\* the importSpec the Kubernetes worker builds for an object of a listing unit
k8sObject(u, obj) ==
  [Group |-> ParseGroupVersion(u.gv).Group, Version |-> ParseGroupVersion(u.gv).Version,
   Kind |-> KindOf(u.res), Namespace |-> obj.Namespace, Name |-> obj.Name]
k8sRecord(x) == [Type |-> k8sToken(x), Name |-> k8sId(x), ID |-> k8sId(x), Parent |-> <<>>]

\* AWS, one turn of `for _, r := range page.ResourceDescriptions`:
\* *r.Identifier panics on nil; an identifier whose key is in seen is skipped;
\* another one is recorded in seen and sent
AwsItem(w, item) ==
  /\ Running
  /\ variant = "aws"
  /\ wpc[w] = "page"
  /\ budget > 0
  /\ budget' = budget - 1
  /\ IF item.isNil
       THEN /\ Fault(w)
            /\ UNCHANGED <<sent, seen, listed, relisted, queue, published, sentClosed>>
       ELSE /\ Returned(<<CurUnit(w), item.Identifier>>)
            /\ IF awsSeenKey(item.Identifier) \in seen[w]
                 THEN UNCHANGED <<sent, seen, queue, published, wg, wpc, wpage, wmore, faulted,
                                  main, sentClosed>>
                 ELSE /\ seen' = [seen EXCEPT ![w] = @ \cup {awsSeenKey(item.Identifier)}]
                      /\ Send(w, awsRecord(CurUnit(w), item.Identifier))
  /\ UNCHANGED <<config, pureVars, clientUse, skipLog, typeNames, errVars, seqVars, chunks, pkgChunks, resourceGroups, spawned, order, closer, closed, imports,
                 widx, listCalls, failed, closeCount, calls, received,
                 callErrs>>

\* a faulty variant, which would take the group's name (rgName) as the parent
azureRecordNamedParent(rg, item) ==
  [Type |-> azureTypeToken(item.Type), Name |-> clearString(LastSegment(item.ID)),
   ID |-> item.ID, Parent |-> LastSegment(rg)]

\* the importSpec the Azure worker of group rg builds for a resource
azureRecord(rg, item) ==
  [Type |-> azureTypeToken(item.Type), Name |-> clearString(LastSegment(item.ID)),
   ID |-> item.ID, Parent |-> rg]

\* a faulty variant, which would record the ID in seen before it looks the
\* type token up in the schema
AzureItemSeenFirst(w, item) ==
  /\ Running
  /\ variant = "azure"
  /\ wpc[w] = "page"
  /\ budget > 0
  /\ budget' = budget - 1
  /\ IF item.isNil
       THEN /\ Fault(w)
            /\ UNCHANGED <<sent, skipLog, seen, listed, relisted, queue, published, sentClosed>>
       ELSE IF azureTypeToken(item.Type) \notin azureSchema
         THEN /\ skipLog' = Append(skipLog, <<item.Type, azureTypeToken(item.Type)>>)
              /\ seen' = [seen EXCEPT ![w] = @ \cup {item.ID}]
              /\ UNCHANGED <<sent, listed, relisted, queue, published, wg, wpc, wpage,
                             wmore, faulted, main, sentClosed>>
       ELSE IF azureTypeToken(item.Type) \in azureResourcesToSkip
         THEN UNCHANGED <<sent, skipLog, seen, listed, relisted, queue, published, wg, wpc, wpage,
                          wmore, faulted, main, sentClosed>>
         ELSE /\ Returned(<<azureTypeToken(item.Type), item.ID>>)
              /\ UNCHANGED skipLog
              /\ IF item.ID \in seen[w]
                   THEN UNCHANGED <<sent, seen, queue, published, wg, wpc, wpage, wmore, faulted,
                                    main, sentClosed>>
                   ELSE /\ seen' = [seen EXCEPT ![w] = @ \cup {item.ID}]
                        /\ Send(w, azureRecord(CurUnit(w), item))
  /\ UNCHANGED <<config, pureVars, clientUse, typeNames, errVars, seqVars, chunks, pkgChunks, resourceGroups, spawned, order, closer,
                 closed, imports, widx, listCalls, failed, closeCount, calls, received,
                 callErrs>>

\* Azure, one turn of `for _, resource := range page.ResourceListResult.Value`:
\* *resource.ID panics on nil; a type whose token is not in the schema is
\* skipped with a printed line; a type of resourcesToSkip and an ID in seen
\* are skipped; another one is recorded in seen and sent
AzureItem(w, item) ==
  /\ Running
  /\ variant = "azure"
  /\ wpc[w] = "page"
  /\ budget > 0
  /\ budget' = budget - 1
  /\ IF item.isNil
       THEN /\ Fault(w)
            /\ UNCHANGED <<sent, skipLog, seen, listed, relisted, queue, published, sentClosed>>
       ELSE IF azureTypeToken(item.Type) \notin azureSchema
         THEN /\ skipLog' = Append(skipLog, <<item.Type, azureTypeToken(item.Type)>>)
              /\ UNCHANGED <<sent, seen, listed, relisted, queue, published, wg, wpc, wpage,
                             wmore, faulted, main, sentClosed>>
       ELSE IF azureTypeToken(item.Type) \in azureResourcesToSkip
         THEN UNCHANGED <<sent, skipLog, seen, listed, relisted, queue, published, wg, wpc, wpage,
                          wmore, faulted, main, sentClosed>>
         ELSE /\ Returned(<<azureTypeToken(item.Type), item.ID>>)
              /\ UNCHANGED skipLog
              /\ IF item.ID \in seen[w]
                   THEN UNCHANGED <<sent, seen, queue, published, wg, wpc, wpage, wmore, faulted,
                                    main, sentClosed>>
                   ELSE /\ seen' = [seen EXCEPT ![w] = @ \cup {item.ID}]
                        /\ Send(w, azureRecord(CurUnit(w), item))
  /\ UNCHANGED <<config, pureVars, clientUse, typeNames, errVars, seqVars, chunks, pkgChunks, resourceGroups, spawned, order, closer,
                 closed, imports, widx, listCalls, failed, closeCount, calls, received,
                 callErrs>>

\* Kubernetes, one turn of `for _, item := range obj.Items`: every object is sent
K8sItem(w, obj) ==
  /\ Running
  /\ variant = "k8s"
  /\ wpc[w] = "page"
  /\ budget > 0
  /\ budget' = budget - 1
  /\ Returned(<<k8sToken(k8sObject(CurUnit(w), obj)), k8sId(obj)>>)
  /\ Send(w, k8sRecord(k8sObject(CurUnit(w), obj)))
  /\ UNCHANGED <<config, pureVars, clientUse, skipLog, typeNames, errVars, seqVars, chunks, pkgChunks, resourceGroups, spawned, order, closer, closed, imports,
                 widx, seen, listCalls, failed, closeCount, calls, received,
                 callErrs>>

\* the page is done and there is another one: the callback returns true and
\* ListResourcesPages fetches it (AWS), pager.More() is true (Azure)
WorkerNextPage(w) ==
  /\ Running
  /\ variant \in {"aws", "azure"}
  /\ wpc[w] = "page"
  /\ wmore[w]
  /\ wpage' = [wpage EXCEPT ![w] = @ + 1]
  /\ \E m \in MorePages(wpage[w] + 1) : wmore' = [wmore EXCEPT ![w] = m]
  /\ UNCHANGED <<config, pureVars, logVars, errVars, seqVars, mainVars, wg, closer, closed, queue, imports, wpc, widx,
                 seen, budget, histVars, published, closeCount, sentClosed, calls, received,
                 callErrs>>

\* a faulty variant, whose page callback would return false after any page
WorkerListDoneStopsEarly(w) ==
  /\ Running
  /\ wpc[w] = "page"
  /\ ListingEnded(w, CurUnit(w), {})
  /\ wpage' = [wpage EXCEPT ![w] = 0]
  /\ wmore' = [wmore EXCEPT ![w] = FALSE]
  /\ UNCHANGED <<config, pureVars, logVars, seqVars, mainVars, wg, closer, closed, queue, imports, seen,
                 budget, histVars, published, closeCount, sentClosed, calls, received,
                 callErrs>>

\* a faulty variant, which would end the process when a listing ends
WorkerListDoneFatal(w) ==
  /\ Running
  /\ wpc[w] = "page"
  /\ ListingEnded(w, CurUnit(w), {})
  /\ wpage' = [wpage EXCEPT ![w] = 0]
  /\ wmore' = [wmore EXCEPT ![w] = FALSE]
  /\ main' = "exited"
  /\ UNCHANGED <<config, pureVars, logVars, seqVars, chunks, pkgChunks, resourceGroups, spawned,
                 order, wg, closer, closed, queue, imports, seen, budget, histVars,
                 published, closeCount, sentClosed, calls, received, callErrs>>

\* the page was the last one: the listing call returns nil (AWS, Kubernetes),
\* pager.More() is false (Azure)
WorkerListDone(w) ==
  /\ Running
  /\ wpc[w] = "page"
  /\ ~wmore[w]
  /\ ListingEnded(w, CurUnit(w), {})
  /\ wpage' = [wpage EXCEPT ![w] = 0]
  /\ wmore' = [wmore EXCEPT ![w] = FALSE]
  /\ UNCHANGED <<config, pureVars, logVars, seqVars, mainVars, wg, closer, closed, queue, imports, seen,
                 budget, histVars, published, closeCount, sentClosed, calls, received,
                 callErrs>>

\* the request of a later page fails
WorkerPageFail(w) ==
  /\ Running
  /\ variant \in {"aws", "azure"}
  /\ wpc[w] = "page"
  /\ wmore[w]
  /\ budget > 0
  /\ budget' = budget - 1
  /\ failed' = failed \cup {CurUnit(w)}
  /\ ListingEnded(w, CurUnit(w), {CurUnit(w)})
  /\ wpage' = [wpage EXCEPT ![w] = 0]
  /\ wmore' = [wmore EXCEPT ![w] = FALSE]
  /\ main' = AfterListingError
  /\ UNCHANGED <<config, pureVars, logVars, seqVars, chunks, pkgChunks, resourceGroups, spawned, order, wg, closer, closed, queue, imports, seen,
                 listed, relisted, listCalls, faulted, published, closeCount,
                 sentClosed, calls, received,
                 callErrs>>

Worker(w) ==
  \/ WorkerFinish(w)
  \/ WorkerSkip(w)
  \/ WorkerListFail(w)
  \/ WorkerListPage(w)
  \/ \E item \in Items : AwsItem(w, item)
  \/ \E obj \in K8sObjects : K8sItem(w, obj)
  \/ \E item \in AzureItems : AzureItem(w, item)
  \/ WorkerNextPage(w)
  \/ WorkerListDone(w)
  \/ WorkerPageFail(w)
  \/ WorkerCheckErr(w)

(***************************************************************************)
(* The Azure program that returns after its OIDC check: the body of         *)
(* buildImportSpec is `_, err := resources.NewResourceGroup(ctx,            *)
(* "resourceGroup", nil); if err != nil { return imports, err }; return     *)
(* imports, nil`, and nothing after it runs.                                *)
(***************************************************************************)
\* In ReadMode ctx is the context of pulumi.Run: NewResourceGroup registers a
\* new resource group with the engine, which creates it, or returns an
\* error.  In the other modes main passes a nil ctx: the registration cannot
\* reach an engine, it returns an error or panics on the nil context.
OidcCheck ==
  /\ main = "start"
  /\ variant = "azure1"
  /\ \/ /\ mode = "read"
        /\ creates' = Append(creates, <<ResourceGroupType, <<"resourceGroup">>>>)
        /\ main' = "returnedEarly"
     \/ /\ main' = "returnedErr"
        /\ UNCHANGED creates
     \/ /\ mode # "read"
        /\ main' = "crashed"
        /\ UNCHANGED creates
  /\ UNCHANGED <<config, pureVars, logVars, errVars, chunks, pkgChunks, resourceGroups, spawned, order, wg,
                 closer, closed, queue, imports, workerVars, budget, histVars, published,
                 closeCount, sentClosed, calls, received, callErrs, bulk, resourceNumber,
                 totalResources>>

(***************************************************************************)
(* pulumi-insights-import: one loop in the main goroutine over the types of *)
(* the catalog; every item with an Identifier is appended at once, and in   *)
(* --incremental mode imported at once.  The position of the loop is kept   *)
(* in slot 1 of the workers' variables.                                     *)
(***************************************************************************)
\* strconv of a natural number, as fmt's %d prints it
RECURSIVE Itoa(_)
Itoa(n) ==
  IF n < 10 THEN <<CHOOSE d \in Digits : d = ToString(n)>>
  ELSE Itoa(n \div 10) \o Itoa(n % 10)

\* the importSpec pulumi-insights-import appends for identifier id of type k
insightsRecord(k, id, number) ==
  [Type |-> k, Name |-> awsNamespace(k) \o k[3] \o Itoa(number), ID |-> id, Parent |-> <<>>]

\* `for k := range pkgSpec.Resources` starts
InsStart ==
  /\ main = "start"
  /\ variant = "insights"
  /\ \E o \in Orders(catalog) :
       /\ order' = o
       /\ pkgChunks' = <<o>>
  /\ wpc' = [wpc EXCEPT ![1] = "next"]
  /\ main' = "scan"
  /\ UNCHANGED <<config, pureVars, logVars, errVars, seqVars, chunks, resourceGroups, spawned, wg, closer,
                 closed, queue, imports, widx, wpage, wmore, seen, budget, histVars, published,
                 closeCount, sentClosed, calls, received, callErrs>>

\* the loop is at a type
InsAtType == main = "scan" /\ wpc[1] = "next" /\ widx[1] <= Len(pkgChunks[1])

\* ListResourcesPages fails before it returns a page: the error is printed
InsListFail ==
  /\ InsAtType
  /\ budget > 0
  /\ budget' = budget - 1
  /\ resourceNumber' = 0
  /\ listCalls' = listCalls \cup {Unit(1)}
  /\ failed' = failed \cup {Unit(1)}
  /\ warnings' = warnings \cup {<<Unit(1), {Unit(1)}>>}
  /\ widx' = [widx EXCEPT ![1] = @ + 1]
  /\ TypeNamed(Unit(1))
  /\ UNCHANGED <<config, pureVars, sent, clientUse, skipLog, err, creates, bulk, totalResources, main, chunks, pkgChunks,
                 resourceGroups, spawned, order, wg, closer, closed, queue, imports, wpc,
                 wpage, wmore, seen, listed, relisted, faulted, published, closeCount,
                 sentClosed, calls, received, callErrs>>

\* `resourceNumber := 0`, and ListResourcesPages returns its first page
InsListPage ==
  /\ InsAtType
  /\ resourceNumber' = 0
  /\ listCalls' = listCalls \cup {Unit(1)}
  /\ wpc' = [wpc EXCEPT ![1] = "page"]
  /\ wpage' = [wpage EXCEPT ![1] = 1]
  /\ \E m \in MorePages(1) : wmore' = [wmore EXCEPT ![1] = m]
  /\ TypeNamed(Unit(1))
  /\ UNCHANGED <<config, pureVars, sent, clientUse, skipLog, errVars, creates, bulk, totalResources, main, chunks, pkgChunks,
                 resourceGroups, spawned, order, wg, closer, closed, queue, imports, widx,
                 seen, budget, listed, relisted, failed, faulted, published, closeCount,
                 sentClosed, calls, received, callErrs>>

\* one turn of `for _, r := range page.ResourceDescriptions`: both counters
\* go up; an item with an Identifier is appended, and with --incremental
\* `_ = callIncrementalPulumiImport(...)` runs, whose error is dropped
InsItem(item) ==
  /\ main = "scan"
  /\ wpc[1] = "page"
  /\ budget > 0
  /\ resourceNumber' = resourceNumber + 1
  /\ totalResources' = totalResources + 1
  /\ IF item.isNil
       THEN /\ budget' = budget - 1
            /\ UNCHANGED <<imports, listed, relisted, calls, callErrs>>
       ELSE /\ Returned(<<CurUnit(1), item.Identifier>>)
            /\ imports' = Append(imports,
                  insightsRecord(CurUnit(1), item.Identifier, resourceNumber + 1))
            /\ IF mode = "incremental"
                 THEN /\ calls' = Append(calls,
                            <<CurUnit(1), insightsRecord(CurUnit(1), item.Identifier,
                                                        resourceNumber + 1).Name,
                              item.Identifier>>)
                      /\ budget' = budget - 1
                      /\ \/ UNCHANGED callErrs
                         \/ callErrs' = callErrs \cup {Len(calls) + 1}
                 ELSE /\ budget' = budget - 1
                      /\ UNCHANGED <<calls, callErrs>>
  /\ UNCHANGED <<config, pureVars, logVars, errVars, creates, bulk, main, chunks, pkgChunks, resourceGroups,
                 spawned, order, wg, closer, closed, queue, workerVars, listCalls, failed,
                 faulted, published, closeCount, sentClosed, received>>

\* the callback returns true and ListResourcesPages fetches another page
InsNextPage ==
  /\ main = "scan"
  /\ wpc[1] = "page"
  /\ wmore[1]
  /\ wpage' = [wpage EXCEPT ![1] = @ + 1]
  /\ \E m \in MorePages(wpage[1] + 1) : wmore' = [wmore EXCEPT ![1] = m]
  /\ UNCHANGED <<config, pureVars, logVars, errVars, seqVars, mainVars, wg, closer, closed, queue, imports,
                 wpc, widx, seen, budget, histVars, published, closeCount, sentClosed,
                 calls, received, callErrs>>

\* the page was the last one (err is nil), or the request of a later page
\* failed (err is printed)
InsListEnd ==
  /\ main = "scan"
  /\ wpc[1] = "page"
  /\ \/ /\ ~wmore[1]
        /\ UNCHANGED <<budget, failed, warnings>>
     \/ /\ wmore[1]
        /\ budget > 0
        /\ budget' = budget - 1
        /\ failed' = failed \cup {CurUnit(1)}
        /\ warnings' = warnings \cup {<<CurUnit(1), {CurUnit(1)}>>}
  /\ wpc' = [wpc EXCEPT ![1] = "next"]
  /\ wpage' = [wpage EXCEPT ![1] = 0]
  /\ wmore' = [wmore EXCEPT ![1] = FALSE]
  /\ widx' = [widx EXCEPT ![1] = @ + 1]
  /\ UNCHANGED <<config, pureVars, logVars, err, seqVars, mainVars, wg, closer, closed, queue, imports,
                 seen, listed, relisted, listCalls, faulted, published, closeCount,
                 sentClosed, calls, received, callErrs>>

\* the loop is over: "Total resources: %d" is printed and writeImportFile
\* writes import.json, or fails and main panics
InsWrite ==
  /\ main = "scan"
  /\ wpc[1] = "next"
  /\ widx[1] > Len(pkgChunks[1])
  /\ main' \in {"written", "crashed"}
  /\ UNCHANGED <<config, pureVars, logVars, errVars, seqVars, chunks, pkgChunks, resourceGroups, spawned,
                 order, wg, closer, closed, queue, imports, workerVars, budget, histVars,
                 published, closeCount, sentClosed, calls, received, callErrs>>

\* a faulty variant without the test of `incremental`
InsBulkImportAlways ==
  /\ main = "written"
  /\ bulk' = bulk + 1
  /\ main' \in {"finished", "crashed"}
  /\ UNCHANGED <<config, pureVars, logVars, errVars, creates, resourceNumber, totalResources, chunks,
                 pkgChunks, resourceGroups, spawned, order, wg, closer, closed, queue,
                 imports, workerVars, budget, histVars, published, closeCount, sentClosed,
                 calls, received, callErrs>>

\* `if !incremental { err = callBulkPulumiImport(); if err != nil { panic(err) } }`
InsBulkImport ==
  /\ main = "written"
  /\ IF mode = "incremental"
       THEN /\ main' = "finished"
            /\ UNCHANGED bulk
       ELSE /\ bulk' = bulk + 1
            /\ main' \in {"finished", "crashed"}
  /\ UNCHANGED <<config, pureVars, logVars, errVars, creates, resourceNumber, totalResources, chunks,
                 pkgChunks, resourceGroups, spawned, order, wg, closer, closed, queue,
                 imports, workerVars, budget, histVars, published, closeCount, sentClosed,
                 calls, received, callErrs>>

(***************************************************************************)
(* The closer goroutine and the consumer loop.                              *)
(***************************************************************************)
\* a faulty variant of the closer without wg.Wait()
CloserCloseEarly ==
  /\ Running
  /\ closer = "waiting"
  /\ closed' = TRUE
  /\ closeCount' = closeCount + 1
  /\ closer' = IF wg = 0 THEN "done" ELSE "waiting"
  /\ UNCHANGED <<config, pureVars, logVars, errVars, seqVars, mainVars, wg, queue, imports, workerVars, budget,
                 histVars, published, sentClosed, calls, received,
                 callErrs>>

\* wg.Wait() returns when the counter is zero; close(importChan)
CloserClose ==
  /\ Running
  /\ closer = "waiting"
  /\ wg = 0
  /\ closed' = TRUE
  /\ closeCount' = closeCount + 1
  /\ closer' = "done"
  /\ UNCHANGED <<config, pureVars, logVars, errVars, seqVars, mainVars, wg, queue, imports, workerVars, budget,
                 histVars, published, sentClosed, calls, received,
                 callErrs>>

\* what the consumer appends for a received record: the record (AWS,
\* Kubernetes), a new importSpec with its ID, Type and Name (Azure)
appended(rec) == IF variant = "azure" THEN [rec EXCEPT !.Parent = <<>>] ELSE rec

\* the keys of the consumer's rgs map after n records: `if resource.Type ==
\* "azure-native:resources:ResourceGroup" { rgs[resource.ID] = &res }`
rgs(n) == { received[j].ID : j \in { k \in 1..n : received[k].Type = ResourceGroupType } }

\* the options of the ReadResource call for record i: `if p, ok :=
\* rgs[resource.Parent]; ok { opts = append(opts, pulumi.Parent(p)) }`
parentOption(i) ==
  IF received[i].Parent \in rgs(i) THEN <<received[i].Parent>> ELSE <<>>

\* a faulty variant, which would put the record it took in front
TakenPrepends ==
  /\ main = "drain"
  /\ queue # <<>>
  /\ imports' = <<appended(Head(queue))>> \o imports
  /\ queue' = Tail(queue)
  /\ received' = Append(received, Head(queue))
  /\ UNCHANGED <<config, pureVars, logVars, errVars, seqVars, chunks, pkgChunks, resourceGroups, spawned, order, wg,
                 closer, closed, workerVars, histVars, published, closeCount, sentClosed>>

\* the state after the consumer took a record off the channel and appended it
Taken ==
  /\ main = "drain"
  /\ queue # <<>>
  /\ imports' = Append(imports, appended(Head(queue)))
  /\ queue' = Tail(queue)
  /\ received' = Append(received, Head(queue))
  /\ UNCHANGED <<config, pureVars, logVars, errVars, seqVars, chunks, pkgChunks, resourceGroups, spawned, order, wg,
                 closer, closed, workerVars, histVars, published, closeCount, sentClosed>>

\* a faulty variant of the consumer, which would give up at the first
\* ReadResource error
AggRecvStopsOnError ==
  /\ Taken
  /\ \/ /\ mode = "read"
        /\ calls' = Append(calls, <<Head(queue).Type, Head(queue).Name, Head(queue).ID>>)
        /\ \/ UNCHANGED <<budget, callErrs, main>>
           \/ /\ budget > 0
              /\ budget' = budget - 1
              /\ callErrs' = callErrs \cup {Len(calls) + 1}
              /\ main' = "exited"
     \/ /\ mode # "read"
        /\ UNCHANGED <<calls, budget, callErrs, main>>

\* a faulty variant of the consumer, which would make the call in every mode
AggRecvAlwaysCalls ==
  /\ Taken
  /\ calls' = Append(calls, <<Head(queue).Type, Head(queue).Name, Head(queue).ID>>)
  /\ UNCHANGED <<budget, callErrs, main>>

\* a faulty variant of the consumer, which would call before it appends, with
\* the record before the one it took
AggRecvCallsLate ==
  /\ Taken
  /\ calls' = IF mode = "read" /\ imports # <<>>
                THEN Append(calls, <<imports[Len(imports)].Type, imports[Len(imports)].Name,
                                     imports[Len(imports)].ID>>)
                ELSE calls
  /\ UNCHANGED <<budget, callErrs, main>>

\* one turn of `for resource := range importChan`: append, and in ReadMode
\* `_ = ctx.ReadResource(...)`: the call returns nil or an error, which is
\* dropped
AggRecv ==
  /\ Taken
  /\ UNCHANGED main
  /\ \/ /\ mode = "read"
        /\ calls' = Append(calls, <<Head(queue).Type, Head(queue).Name, Head(queue).ID>>)
        /\ \/ UNCHANGED <<budget, callErrs>>
           \/ /\ budget > 0
              /\ budget' = budget - 1
              /\ callErrs' = callErrs \cup {Len(calls) + 1}
     \/ /\ mode # "read"
        /\ UNCHANGED <<calls, budget, callErrs>>

\* a faulty variant of the consumer, which would return on an empty buffer
AggReturnEarly ==
  /\ main = "drain"
  /\ queue = <<>>
  /\ main' = "returned"
  /\ UNCHANGED <<config, pureVars, logVars, errVars, seqVars, chunks, pkgChunks, resourceGroups, spawned, order, wg, closer, closed,
                 queue, imports, workerVars, budget, histVars, published,
                 closeCount, sentClosed, calls, received,
                 callErrs>>

\* the range loop ends when the channel is closed and empty:
\* `return imports, nil`
AggReturn ==
  /\ main = "drain"
  /\ queue = <<>>
  /\ closed
  /\ main' = "returned"
  /\ UNCHANGED <<config, pureVars, logVars, errVars, seqVars, chunks, pkgChunks, resourceGroups, spawned, order, wg, closer, closed,
                 queue, imports, workerVars, budget, histVars, published,
                 closeCount, sentClosed, calls, received,
                 callErrs>>

Next ==
  \/ MainPartition
  \/ \E g \in GroupItems : AzGroupItem(g)
  \/ AzGroupsFail
  \/ AzGroupsDone
  \/ AzPublishGroup
  \/ AzPublishDone
  \/ MainSpawn
  \/ MainStartCloser
  \/ \E w \in 1..chunks : WorkerFinish(w)
  \/ \E w \in 1..chunks : WorkerSkip(w)
  \/ \E w \in 1..chunks : WorkerListFail(w)
  \/ \E w \in 1..chunks : WorkerListPage(w)
  \/ \E w \in 1..chunks : \E item \in Items : AwsItem(w, item)
  \/ \E w \in 1..chunks : \E obj \in K8sObjects : K8sItem(w, obj)
  \/ \E w \in 1..chunks : \E item \in AzureItems : AzureItem(w, item)
  \/ \E w \in 1..chunks : WorkerNextPage(w)
  \/ \E w \in 1..chunks : WorkerListDone(w)
  \/ \E w \in 1..chunks : WorkerPageFail(w)
  \/ \E w \in 1..chunks : WorkerCheckErr(w)
  \/ CloserClose
  \/ AggRecv
  \/ AggReturn
  \/ OidcCheck
  \/ InsStart
  \/ InsListFail
  \/ InsListPage
  \/ \E item \in Items : InsItem(item)
  \/ InsNextPage
  \/ InsListEnd
  \/ InsWrite
  \/ InsBulkImport

Spec == Init /\ [][Next]_vars

\* the steps of the main goroutine
Main ==
  \/ MainPartition
  \/ \E g \in GroupItems : AzGroupItem(g)
  \/ AzGroupsFail
  \/ AzGroupsDone
  \/ AzPublishGroup
  \/ AzPublishDone
  \/ MainSpawn
  \/ MainStartCloser
  \/ AggRecv
  \/ AggReturn
  \/ OidcCheck
  \/ InsStart
  \/ InsListFail
  \/ InsListPage
  \/ \E item \in Items : InsItem(item)
  \/ InsNextPage
  \/ InsListEnd
  \/ InsWrite
  \/ InsBulkImport

\* The Go scheduler runs every goroutine that can take a step, and a listing
\* call that was made returns.
FairSpec ==
  /\ Spec
  /\ WF_vars(Main)
  /\ WF_vars(CloserClose)
  /\ \A w \in Workers : WF_vars(Worker(w))

(***************************************************************************)
(* clearString and getConcurrentWorkers applied on their own, to every      *)
(* argument within the bounds.                                              *)
(***************************************************************************)
\* characters of the arguments: kept ones and removed ones
Chars == {"a", "Z", "0", " ", "-", "/"}
Strings == UNION { [1..n -> Chars] : n \in 0..MaxLen }

\* the variables of the engines, at rest
EngineIdle ==
  /\ variant = "aws"
  /\ mode = "import"
  /\ catalog = AwsCatalog
  /\ main = "start"
  /\ chunks = 0
  /\ pkgChunks = <<>>
  /\ resourceGroups = <<>>
  /\ spawned = 0
  /\ wg = 0
  /\ closer = "idle"
  /\ closed = FALSE
  /\ queue = <<>>
  /\ imports = <<>>
  /\ wpc = [w \in Workers |-> "idle"]
  /\ widx = [w \in Workers |-> 1]
  /\ wpage = [w \in Workers |-> 0]
  /\ wmore = [w \in Workers |-> FALSE]
  /\ seen = [w \in Workers |-> {}]
  /\ budget = 0
  /\ order = <<>>
  /\ listed = {}
  /\ relisted = {}
  /\ listCalls = {}
  /\ failed = {}
  /\ faulted = {}
  /\ published = 0
  /\ closeCount = 0
  /\ sentClosed = FALSE
  /\ calls = <<>>
  /\ received = <<>>
  /\ callErrs = {}
  /\ creates = <<>>
  /\ bulk = 0
  /\ resourceNumber = 0
  /\ totalResources = 0
  /\ err = {}
  /\ warnings = {}
  /\ sent = [w \in Workers |-> <<>>]
  /\ clientUse = {}
  /\ skipLog = <<>>
  /\ typeNames = {}

engineVars ==
  <<variant, mode, main, pkgChunks, resourceGroups, spawned, wg, closer, closed, queue,
    imports, wpc, widx, wpage, wmore, seen, budget, order, listed, relisted, listCalls,
    failed, faulted, published, closeCount, sentClosed, calls, received, callErrs,
    creates, bulk, resourceNumber, totalResources, err, warnings,
    catalog, sent, clientUse, skipLog, typeNames>>

PureInit ==
  /\ EngineIdle
  /\ env \in EnvValues
  /\ str \in Strings
  /\ once = <<>>
  /\ twice = <<>>
  /\ pstep = "in"
  /\ status = 0
  /\ defaultRetry = FALSE
  /\ shouldRetry = FALSE
  /\ retryCount = 0
  /\ rstep = "off"

\* clearString(str)
ApplyClearString ==
  /\ pstep = "in"
  /\ once' = clearString(str)
  /\ pstep' = "once"
  /\ UNCHANGED <<engineVars, retryVars, env, chunks, str, twice>>

\* clearString of the result
ApplyClearStringAgain ==
  /\ pstep = "once"
  /\ twice' = clearString(once)
  /\ pstep' = "twice"
  /\ UNCHANGED <<engineVars, retryVars, env, chunks, str, once>>

\* chunks := getConcurrentWorkers()
ApplyGetConcurrentWorkers ==
  /\ pstep = "twice"
  /\ chunks' = getConcurrentWorkers(env)
  /\ pstep' = "workers"
  /\ UNCHANGED <<engineVars, retryVars, env, str, once, twice>>

PureNext ==
  \/ ApplyClearString
  \/ ApplyClearStringAgain
  \/ ApplyGetConcurrentWorkers

PureSpec == PureInit /\ [][PureNext]_vars

(***************************************************************************)
(* The retry policy of the AWS session: `r := CustomRetryer{DefaultRetryer: *)
(* client.DefaultRetryer{NumMaxRetries: 1000}}; c.Retryer = r`.  One        *)
(* request of the SDK is sent, and after a failed attempt the SDK asks the  *)
(* retryer whether to send it again.                                        *)
(***************************************************************************)
\* the status codes of the responses: 0 stands for an attempt without a
\* response, for which the SDK puts a response with StatusCode 0
StatusCodes == {0, 200, 400, 429, 500, 503}

\* a faulty variant without the test of the status code
ShouldRetryDefault(code, dflt) == dflt
\* CustomRetryer.ShouldRetry: `if req.HTTPResponse.StatusCode == 500 { return
\* false }; return r.DefaultRetryer.ShouldRetry(req)`
ShouldRetry(code, dflt) == IF code = 500 THEN FALSE ELSE dflt

\* MaxRetries() of the embedded DefaultRetryer
MaxRetries == NumMaxRetries

RetryInit ==
  /\ EngineIdle
  /\ env = [isInt |-> FALSE, val |-> 0]
  /\ str = <<>>
  /\ once = <<>>
  /\ twice = <<>>
  /\ pstep = "off"
  /\ status = 0
  /\ defaultRetry = FALSE
  /\ shouldRetry = FALSE
  /\ retryCount = 0
  /\ rstep = "send"

\* an attempt of the request succeeds
RequestSucceeds ==
  /\ rstep = "send"
  /\ status' = 200
  /\ rstep' = "done"
  /\ UNCHANGED <<engineVars, env, chunks, str, once, twice, pstep, defaultRetry, shouldRetry,
                 retryCount>>

\* an attempt fails with a status code; the default retryer would retry or not
RequestFails ==
  /\ rstep = "send"
  /\ status' \in StatusCodes \ {200}
  /\ defaultRetry' \in BOOLEAN
  /\ rstep' = "responded"
  /\ UNCHANGED <<engineVars, env, chunks, str, once, twice, pstep, shouldRetry, retryCount>>

\* the SDK asks the retryer: r.Retryable = r.ShouldRetry(r)
AskShouldRetry ==
  /\ rstep = "responded"
  /\ shouldRetry' = ShouldRetry(status, defaultRetry)
  /\ rstep' = "decided"
  /\ UNCHANGED <<engineVars, env, chunks, str, once, twice, pstep, status, defaultRetry,
                 retryCount>>

\* the request is sent again: it is retryable and RetryCount < MaxRetries()
RequestRetried ==
  /\ rstep = "decided"
  /\ shouldRetry
  /\ retryCount < MaxRetries
  /\ retryCount' = retryCount + 1
  /\ rstep' = "send"
  /\ UNCHANGED <<engineVars, env, chunks, str, once, twice, pstep, status, defaultRetry,
                 shouldRetry>>

\* the request returns its error: it is not retryable or the retries are used up
RequestGivenUp ==
  /\ rstep = "decided"
  /\ ~(shouldRetry /\ retryCount < MaxRetries)
  /\ rstep' = "failed"
  /\ UNCHANGED <<engineVars, env, chunks, str, once, twice, pstep, status, defaultRetry,
                 shouldRetry, retryCount>>

RetryNext ==
  \/ RequestSucceeds
  \/ RequestFails
  \/ AskShouldRetry
  \/ RequestRetried
  \/ RequestGivenUp

RetrySpec == RetryInit /\ [][RetryNext]_vars

(***************************************************************************)
(* Properties.                                                              *)
(***************************************************************************)
\* the records of imports.Resources with a type token and an identity
RecordsOf(p) == { i \in 1..Len(imports) : imports[i].Type = p[1] /\ imports[i].ID = p[2] }

\* the descriptors of the catalog that were partitioned
Range(f) == { f[i] : i \in DOMAIN f }
Places(d) ==
  { <<i, j>> \in (1..Len(pkgChunks)) \X (1..Len(order)) :
      j <= Len(pkgChunks[i]) /\ pkgChunks[i][j] = d }

\* the listing units of the run that no `continue` skips
ListableUnits ==
  UNION { { MyUnits(w)[j] : j \in { k \in 1..Len(MyUnits(w)) : ~Skips(variant, MyUnits(w)[k]) } } :
          w \in 1..chunks }

\* C1: the Inventory a run returns holds no two records with the same
\* (type token, identity) pair.
C1_NoDuplicateRecords ==
  main = "returned" =>
    \A i, j \in 1..Len(imports) :
      (imports[i].Type = imports[j].Type /\ imports[i].ID = imports[j].ID) => i = j

\* C1's failing case: the group listing of Azure returned one group twice, and
\* the returned Inventory holds its record twice
C1_Witness ==
  /\ variant = "azure"
  /\ main = "returned"
  /\ Len(imports) = 2
  /\ imports[1] = imports[2]
  /\ imports[1].Type = ResourceGroupType

\* C2: when the run returns, every item a listing call returned (of a type
\* that is neither skipped nor unmappable) has a record with its type token
\* and identity in the Inventory.
C2_EveryListedItemRecorded ==
  main = "returned" => \A p \in listed : RecordsOf(p) # {}

\* C2's failing case: one AWS listing returned the identifiers "a" and "a-",
\* which clearString maps to the same key, and the run returned one record
C2_Witness ==
  /\ variant = "aws"
  /\ main = "returned"
  /\ \E k \in AwsCatalog : {<<k, <<"a">>>>, <<k, <<"a", "-">>>>} \subseteq listed
  /\ Len(imports) = 1

\* C3: after partitioning with N >= 1 workers there are N shards, the shards
\* hold descriptors of the catalog only, and every descriptor of the catalog
\* is at exactly one place of exactly one shard.
C3_PartitionTotalDisjoint ==
  (variant \in {"aws", "k8s"} /\ main \in {"spawn", "drain", "returned"}) =>
    /\ Len(pkgChunks) = chunks
    /\ chunks >= 1
    /\ Range(order) = (IF variant = "aws" THEN catalog ELSE Range(apiResources))
    /\ \A d \in Range(order) : Cardinality(Places(d)) = 1
    /\ \A i \in 1..Len(pkgChunks) : Range(pkgChunks[i]) \subseteq Range(order)

\* C3's case: three descriptors over two workers, one shard with two of them
C3_Witness ==
  /\ variant = "aws"
  /\ main = "spawn"
  /\ chunks = 2
  /\ Len(pkgChunks[1]) = 2
  /\ Len(pkgChunks[2]) = 1

\* C4: a failed listing call never ends the run, and when the run returns
\* without a worker fault every unit that is not skipped was listed.
C4_ListingFailureIsolated ==
  /\ failed # {} => main # "exited"
  /\ (main = "returned" /\ faulted = {}) => ListableUnits \subseteq listCalls


\* C4's failing case: the listing of one Azure group failed and the process
\* exited while the worker of the other group was still listing
C4_Witness ==
  /\ variant = "azure"
  /\ main = "exited"
  /\ chunks = 2
  /\ \E w \in 1..2 : failed = {pkgChunks[w][1]} /\ wpc[3 - w] = "page"

\* the workers that have not signalled completion
Pending == { w \in 1..spawned : wpc[w] # "done" }

\* C5: a panic inside a worker is contained: the worker is over and has
\* signalled completion (the WaitGroup counter is the number of workers still
\* at work), the process is not brought down, the other workers finish, and
\* the run returns with every published record delivered.
C5_WorkerFaultContained ==
  /\ [](faulted # {} =>
          /\ \A w \in faulted : wpc[w] = "done"
          /\ wg = Cardinality(Pending)
          /\ main # "crashed"
          /\ (main = "returned" => Len(imports) = published))
  /\ ((variant = "aws" /\ faulted # {}) ~>
        (main = "returned" /\ \A w \in 1..chunks : wpc[w] = "done"))

\* C5's case: one of two AWS workers panicked on a nil Identifier, the run
\* returned and the Inventory holds a record of the other worker's shard
C5_Witness ==
  /\ variant = "aws"
  /\ main = "returned"
  /\ chunks = 2
  /\ \E w \in 1..2 :
       /\ faulted = {w}
       /\ \E i \in 1..Len(imports) : imports[i].Type \in Range(pkgChunks[3 - w])

C7_ReturnsWhenDrained ==
  main = "returned" =>
    /\ closed
    /\ queue = <<>>
    /\ spawned = chunks
    /\ \A w \in 1..chunks : wpc[w] = "done"
    /\ wg = 0
    /\ Len(imports) = published

\* C7's case: a run with two workers returned two records
C7_Witness ==
  /\ main = "returned"
  /\ chunks = 2
  /\ published = 2
  /\ Len(imports) = 2

\* C8: importChan is closed at most once, by the closer, when every worker
\* was started and has signalled completion; no send happens on the closed
\* channel; a run that returns has closed it.
C8_ClosedOnceAfterWorkers ==
  /\ closeCount <= 1
  /\ closed <=> closeCount = 1
  /\ closed => /\ closer = "done"
               /\ spawned = chunks
               /\ \A w \in 1..chunks : wpc[w] = "done"
  /\ ~sentClosed
  /\ main = "returned" => closed

\* C8's case: the channel was closed after a worker that published and a
\* worker that panicked
C8_Witness ==
  /\ closed
  /\ chunks = 2
  /\ faulted # {}
  /\ published >= 1

\* C9: when the run returns, an identity that the listing of a type returned
\* more than once has exactly one record in the Inventory.
C9_OneRecordPerIdentity ==
  main = "returned" => \A p \in relisted : Cardinality(RecordsOf(p)) = 1

\* C9's failing case: a Kubernetes List returned one object twice and the
\* returned Inventory holds two records of it
C9_Witness ==
  /\ variant = "k8s"
  /\ main = "returned"
  /\ \E p \in relisted : Cardinality(RecordsOf(p)) = 2

\* the exclusion set of the running program
Excluded ==
  CASE variant = "aws" -> resourcesToSkip
    [] variant = "azure" -> azureResourcesToSkip
    [] OTHER -> {}

\* C10: no record with an excluded type token is in the Inventory, on the
\* channel or in a ReadResource call, and no listing call is made for an
\* excluded type.
C10_ExcludedNeverRecorded ==
  /\ \A i \in 1..Len(imports) : imports[i].Type \notin Excluded
  /\ \A i \in 1..Len(queue) : queue[i].Type \notin Excluded
  /\ \A i \in 1..Len(calls) : calls[i][1] \notin Excluded
  /\ listCalls \cap Excluded = {}

\* C10's case: an AWS run in ReadMode whose catalog holds the excluded type
\* returned records of the other types
C10_Witness ==
  /\ variant = "aws"
  /\ mode = "read"
  /\ main = "returned"
  /\ TypeSkip \in Range(order)
  /\ Len(imports) = 2
  /\ Len(calls) = 2

\* the records in the order they were sent on importChan
PublishOrder == received \o queue

\* C11: every record with a parent was sent after, and is received after, the
\* group record whose ID is that parent; in ReadMode the ReadResource call of
\* such a record therefore carries the parent option.
C11_GroupBeforeChild ==
  /\ \A i \in 1..Len(PublishOrder) :
       PublishOrder[i].Parent # <<>> =>
         \E j \in 1..(i - 1) : /\ PublishOrder[j].Type = ResourceGroupType
                               /\ PublishOrder[j].ID = PublishOrder[i].Parent
  /\ \A i \in 1..Len(received) :
       received[i].Parent # <<>> =>
         /\ \E j \in 1..(i - 1) : /\ received[j].Type = ResourceGroupType
                                  /\ received[j].ID = received[i].Parent
         /\ parentOption(i) = <<received[i].Parent>>

\* C11's case: an Azure run with two groups received a resource of the second
\* group's goroutine
C11_Witness ==
  /\ variant = "azure"
  /\ mode = "read"
  /\ chunks = 2
  /\ \E i \in 1..Len(received) : received[i].Parent = resourceGroups[2].ID

\* C12: in a returned Inventory no parent dangles: a record of the Inventory
\* that has a parent, and every record that was received with a parent, names
\* the ID of a record of the Inventory.
C12_NoDanglingParent ==
  main = "returned" =>
    /\ \A i \in 1..Len(imports) :
         imports[i].Parent # <<>> =>
           \E j \in 1..Len(imports) : imports[j].ID = imports[i].Parent
    /\ \A i \in 1..Len(received) :
         received[i].Parent # <<>> =>
           \E j \in 1..Len(imports) : imports[j].ID = received[i].Parent

\* C12's case: a returned Azure Inventory with the records of two resources
\* that were sent with a parent
C12_Witness ==
  /\ variant = "azure"
  /\ main = "returned"
  /\ Cardinality({ i \in 1..Len(received) : received[i].Parent # <<>> }) = 2

\* C13: the Name of every record of imports.Resources is made of letters,
\* digits and spaces only.
C13_NamesSanitized ==
  \A i \in 1..Len(imports) :
    \A n \in 1..Len(imports[i].Name) : ClearStringKeeps(imports[i].Name[n])

\* C13's failing case: the returned Inventory of a Kubernetes run holds the
\* record of a namespaced object, whose Name is "n/a"
C13_Witness ==
  /\ variant = "k8s"
  /\ main = "returned"
  /\ \E i \in 1..Len(imports) : imports[i].Name = <<"n", "/", "a">>

\* the characters the display name may hold: letters, digits and the space
Allowed ==
  {"a","b","c","d","e","f","g","h","i","j","k","l","m","n","o","p","q","r","s","t",
   "u","v","w","x","y","z","A","B","C","D","E","F","G","H","I","J","K","L","M","N",
   "O","P","Q","R","S","T","U","V","W","X","Y","Z","0","1","2","3","4","5","6","7",
   "8","9"," "}

\* the positions of s that hold an allowed character, in order
AllowedPositions(s) == { i \in 1..Len(s) : s[i] \in Allowed }

\* t is s without the characters that are not allowed: the k-th character of
\* t is the character at the k-th allowed position of s
IsStripped(s, t) ==
  /\ Len(t) = Cardinality(AllowedPositions(s))
  /\ \A i \in AllowedPositions(s) :
       t[Cardinality({ j \in AllowedPositions(s) : j <= i })] = s[i]

\* C14: clearString removes exactly the characters outside [A-Za-z0-9 ], keeps
\* the others in their order, and applied to its own result changes nothing.
C14_ClearStringExactIdempotent ==
  /\ pstep \in {"once", "twice", "workers"} => IsStripped(str, once)
  /\ pstep \in {"twice", "workers"} => twice = once

\* C14's case: a string with a removed character between two kept ones,
\* cleared twice
C14_Witness ==
  /\ pstep = "twice"
  /\ str = <<"a", "/", "Z">>
  /\ once = <<"a", "Z">>
  /\ twice = <<"a", "Z">>

\* C20: the engine runs with 3 workers when PULUMI_CLOUD_IMPORT_WORKERS is
\* unset or no integer, and with the given number when it is an integer.
C20_WorkerCount ==
  pstep = "workers" => chunks = (IF env.isInt THEN env.val ELSE 3)

\* C20's failing case: the variable is no integer and chunks is 10
C20_Witness ==
  /\ pstep = "workers"
  /\ ~env.isInt
  /\ chunks = DefaultWorkers

\* what the call for record i of imports.Resources is made with
CallOf(i) == <<imports[i].Type, imports[i].Name, imports[i].ID>>

\* C15: when a ReadResource call fails, its record is in imports.Resources,
\* the failure does not end the run (the process ends only where a listing
\* call made it exit), the records after it are taken and read as well, and
\* a run that returns has appended and read every record that was sent.
C15_RegisterFailureTolerated ==
  /\ \A k \in callErrs : k <= Len(imports) /\ calls[k] = CallOf(k)
  /\ (mode = "read" /\ callErrs # {}) =>
       /\ main \in {"drain", "returned", "exited"}
       /\ main = "exited" => (variant = "azure" /\ failed # {})
       /\ Len(calls) = Len(imports)
       /\ main = "returned" => Len(imports) = published

\* C15's case: the call for the first record failed, a second record was
\* appended and read, and the run returned
C15_Witness ==
  /\ mode = "read"
  /\ main = "returned"
  /\ callErrs = {1}
  /\ Len(imports) = 2
  /\ Len(calls) = 2

\* C16: in import mode (not --incremental) no record is followed by a call:
\* the consumer and the sequential loop only append, and the one
\* `pulumi import -f import.json` of pulumi-insights-import runs after the
\* loop has ended and the file is written, once for the whole file.
C16_ExportModeNoSideEffect ==
  mode = "import" =>
    /\ calls = <<>>
    /\ callErrs = {}
    /\ bulk <= 1
    /\ bulk = 1 => main \in {"finished", "crashed"}

\* C16's case: import mode, two records were appended by the consumer and the
\* run returned
C16_Witness ==
  /\ mode = "import"
  /\ main = "returned"
  /\ Len(imports) = 2

\* C17: no run issues a call that creates or modifies a cloud resource.
C17_NeverCreates == creates = <<>>

\* C17's case: the Azure program in read mode has registered a new resource
\* group named "resourceGroup" and returned
C17_Witness ==
  /\ variant = "azure1"
  /\ mode = "read"
  /\ main = "returnedEarly"
  /\ creates = <<<<ResourceGroupType, <<"resourceGroup">>>>>>

\* C18: in read mode and in --incremental mode the calls made so far are the
\* records appended so far, in the same order and with the same type, name
\* and id: one call per record, made in the step that appends it; a call
\* that failed is still in the sequence and its record is kept.
C18_OneCallPerRecord ==
  mode \in {"read", "incremental"} =>
    /\ calls = [i \in 1..Len(imports) |-> CallOf(i)]
    /\ callErrs \subseteq 1..Len(calls)

\* C18's case: --incremental mode, two records were appended, each followed
\* by its `pulumi import`, the first of which failed, and the loop went on
\* to the end
C18_Witness ==
  /\ mode = "incremental"
  /\ main = "finished"
  /\ Len(imports) = 2
  /\ Len(calls) = 2
  /\ callErrs = {1}

\* C19: every listing failure is printed by the worker that made the call,
\* and what a worker prints for a unit is the error of its own call for that
\* unit: every warning pairs a unit with that unit's error, and when the run
\* has ended every unit whose listing failed has its warning.
C19_ListingFailuresReported ==
  /\ \A x \in warnings : x[2] = {x[1]}
  /\ main \in {"returned", "exited", "written", "finished"} =>
       \A u \in failed : <<u, {u}>> \in warnings

\* C19's case: an AWS run returned, a listing call had failed, and no worker
\* printed anything
C19_Witness ==
  /\ variant = "aws"
  /\ main = "returned"
  /\ failed # {}
  /\ warnings = {}

\* C21: when listing calls were made and none of them returned an item or
\* failed, nothing is sent or appended, no call is made for a record, the
\* process is not ended by the engine, and a run that has returned has an
\* empty imports.Resources.
C21_EmptyListingsEmptyInventory ==
  (/\ listCalls # {}
   /\ listed = {}
   /\ failed = {}
   /\ faulted = {}
   /\ budget = MaxResults) =>
     /\ published = 0
     /\ queue = <<>>
     /\ imports = <<>>
     /\ calls = <<>>
     /\ creates = <<>>
     /\ main # "exited"
     /\ main = "crashed" => variant = "insights"

\* C21's case: one AWS worker, every listing call it made returned no item,
\* and buildImportSpec returned
C21_Witness ==
  /\ variant = "aws"
  /\ chunks = 1
  /\ main = "returned"
  /\ listCalls # {}
  /\ budget = MaxResults
  /\ imports = <<>>
  /\ calls = <<>>

\* C22: a worker skips a listed item only when it has sent a record of the
\* same identity before: every (type token, identity) pair a worker's listing
\* returned has a record among the records sent on importChan.  (The groups
\* of Azure's first pass are sent by the main goroutine after its listing.)
C22_SkipsOnlyRepeats ==
  variant \in {"aws", "k8s", "azure"} =>
    \A p \in listed :
      \/ variant = "azure" /\ p[1] = ResourceGroupType
      \/ \E i \in 1..Len(PublishOrder) :
           PublishOrder[i].Type = p[1] /\ PublishOrder[i].ID = p[2]

\* C22's failing case: the one AWS worker listed the identifier "a" for two
\* types of its shard, sent one record, and the run returned
C22_Witness ==
  /\ variant = "aws"
  /\ chunks = 1
  /\ main = "returned"
  /\ {<<TypeX, <<"a">>>>, <<TypeY, <<"a">>>>} \subseteq listed
  /\ published = 1

\* C23: every record sent on importChan is in the buffer or was taken, the
\* records taken are imports.Resources, one record each and in the order
\* they were taken; every step leaves the records imports.Resources holds
\* where they are, and no step changes it after buildImportSpec returned.
C23_AppendOnly ==
  /\ [](variant \in {"aws", "k8s", "azure"} =>
          /\ Len(received) + Len(queue) = published
          /\ imports = [i \in 1..Len(received) |-> appended(received[i])])
  /\ [][/\ Len(imports') >= Len(imports)
        /\ SubSeq(imports', 1, Len(imports)) = imports
        /\ main = "returned" => imports' = imports]_vars

\* C23's case: two different records were sent, taken and appended, and the
\* run returned
C23_Witness ==
  /\ variant = "k8s"
  /\ main = "returned"
  /\ published = 2
  /\ Len(imports) = 2
  /\ imports[1] # imports[2]

\* s is t with some elements left out, the others in t's order
RECURSIVE IsSubSeq(_, _)
IsSubSeq(s, t) ==
  IF s = <<>> THEN TRUE
  ELSE IF t = <<>> THEN FALSE
  ELSE IF Head(s) = Head(t) THEN IsSubSeq(Tail(s), Tail(t))
  ELSE IsSubSeq(s, Tail(t))

\* imports.Resources followed by what the consumer will append for the
\* records still in the buffer
InventoryToBe == imports \o [i \in 1..Len(queue) |-> appended(queue[i])]

\* C24: the records a worker sent are in imports.Resources (and, until they
\* are taken, in the buffer) in the order the worker sent them, whatever the
\* other workers sent in between.
C24_WorkerOrderKept ==
  \A w \in Workers :
    IsSubSeq([j \in 1..Len(sent[w]) |-> appended(sent[w][j])], InventoryToBe)

\* C24's case: an Azure worker sent two different records after the two
\* group records, and the run returned with all four
C24_Witness ==
  /\ variant = "azure"
  /\ main = "returned"
  /\ Len(imports) = 4
  /\ \E w \in Workers : Len(sent[w]) = 2 /\ sent[w][1] # sent[w][2]

\* C25: no client through which a listing call was made was used by two
\* workers.
C25_ClientPerWorker ==
  \A x, y \in clientUse : x[1] = y[1] => x[2] = y[2]

\* C25's failing case: two Azure workers have listed through resourceClient
C25_Witness ==
  /\ variant = "azure"
  /\ {<<0, 1>>, <<0, 2>>} \subseteq clientUse

\* C26: once the workers are started, their number is the configured worker
\* count, one per shard.
C26_WorkersAsConfigured ==
  (variant \in {"aws", "k8s", "azure"} /\ main \in {"drain", "returned"}) =>
    /\ spawned = getConcurrentWorkers(env)
    /\ spawned = Len(pkgChunks)

\* C26's failing case: the Azure program found two resource groups and ran
\* two workers
C26_Witness ==
  /\ variant = "azure"
  /\ main = "returned"
  /\ Len(resourceGroups) = 2
  /\ spawned = 2
  /\ getConcurrentWorkers(env) # 2

\* C27: for every value of PULUMI_CLOUD_IMPORT_WORKERS the partitioning runs
\* with a worker count of at least one and does not fault.
C27_WorkerCountPositive ==
  (variant \in {"aws", "k8s"} /\ main # "start") =>
    /\ chunks >= 1
    /\ main # "crashed"

\* C27's failing case: PULUMI_CLOUD_IMPORT_WORKERS=0, and the partitioning
\* loop has panicked
C27_Witness ==
  /\ variant = "aws"
  /\ env = [isInt |-> TRUE, val |-> 0]
  /\ chunks = 0
  /\ main = "crashed"

\* C28: after partitioning, the descriptor at position i of the iteration
\* order (from 0) is in shard i mod N, at position i div N of it, and the
\* sizes of two shards differ by one at most.
C28_RoundRobin ==
  (variant \in {"aws", "k8s"} /\ main \in {"spawn", "drain", "returned"}) =>
    /\ \A i \in 0..(Len(order) - 1) :
         /\ Len(pkgChunks[(i % chunks) + 1]) >= (i \div chunks) + 1
         /\ pkgChunks[(i % chunks) + 1][(i \div chunks) + 1] = order[i + 1]
    /\ \A a, b \in 1..chunks : Len(pkgChunks[a]) - Len(pkgChunks[b]) <= 1

\* C28's case: the three groups of the Kubernetes catalog were split over two
\* workers, two and one, and the workers were started
C28_Witness ==
  /\ variant = "k8s"
  /\ chunks = 2
  /\ main = "drain"
  /\ Len(pkgChunks[1]) = 2
  /\ Len(pkgChunks[2]) = 1

\* C29: with more workers than descriptors, N - M shards are empty; the
\* worker of an empty shard makes no listing call, sends nothing, does not
\* fault and ends with wg.Done(), and a run that returned holds every record
\* that was sent.
C29_EmptyShards ==
  (/\ variant \in {"aws", "k8s"}
   /\ main \in {"spawn", "drain", "returned"}
   /\ chunks > Len(order)) =>
     /\ Cardinality({ w \in 1..chunks : pkgChunks[w] = <<>> }) = chunks - Len(order)
     /\ \A w \in 1..chunks :
          pkgChunks[w] = <<>> =>
            /\ wpc[w] \in {"idle", "next", "done"}
            /\ \A c \in {0, w} : <<c, w>> \notin clientUse
            /\ sent[w] = <<>>
            /\ w \notin faulted
            /\ main = "returned" => wpc[w] = "done"
     /\ main = "returned" => Len(imports) = published

\* C29's case: two AWS workers for a catalog of one type; the run returned
\* with two records of worker 1, worker 2 had nothing to do
C29_Witness ==
  /\ variant = "aws"
  /\ chunks = 2
  /\ Len(order) = 1
  /\ main = "returned"
  /\ pkgChunks[2] = <<>>
  /\ wpc[2] = "done"
  /\ Len(imports) = 2

\* C30: in every step, a worker goes from a page to the next one only, and
\* only when the listing has one; it leaves a listing that has more pages
\* only when the request of the next page failed (or the worker panicked, or
\* the process was ended); and it never is on a page beyond the last.
C30_PagesUntilDone ==
  /\ [](\A w \in Workers : wpage[w] <= MaxPages /\ (wmore[w] => wpc[w] = "page"))
  /\ [][\A w \in Workers :
          /\ wpage'[w] \in {0, wpage[w], wpage[w] + 1}
          /\ (wpage[w] >= 1 /\ wpage'[w] = wpage[w] + 1) => wmore[w]
          /\ (wpc[w] = "page" /\ wpc'[w] # "page" /\ wmore[w]) =>
               \/ failed' # failed
               \/ main' = "exited"
               \/ w \in faulted']_vars

\* C30's case: an AWS worker is on the second page of a listing, which is the
\* last one, and has sent a record from each of the two pages
C30_Witness ==
  /\ variant = "aws"
  /\ \E w \in Workers :
       /\ wpc[w] = "page"
       /\ wpage[w] = 2
       /\ ~wmore[w]
       /\ Len(sent[w]) = 2

\* C31: an Azure resource whose type token is not in the schema is skipped with
\* a printed line: every record sent, queued, received or appended has a type
\* token of the schema, every printed line names a token outside it, and the
\* step that prints the line sends and appends nothing, leaves every seen map
\* as it was and leaves the worker on its page, where it takes the next item.
C31_UnmappableSkipped ==
  /\ [](variant = "azure" =>
          /\ \A i \in 1..Len(imports) : imports[i].Type \in azureSchema
          /\ \A i \in 1..Len(PublishOrder) : PublishOrder[i].Type \in azureSchema
          /\ \A w \in Workers : \A i \in 1..Len(sent[w]) : sent[w][i].Type \in azureSchema
          /\ \A i \in 1..Len(skipLog) : skipLog[i][2] \notin azureSchema)
  /\ [][skipLog' # skipLog =>
          /\ skipLog' = Append(skipLog, <<NativeOther, azureTypeToken(NativeOther)>>)
          /\ queue' = queue
          /\ published' = published
          /\ sent' = sent
          /\ imports' = imports
          /\ seen' = seen
          /\ wpc' = wpc
          /\ wpage' = wpage
          /\ widx' = widx
          /\ faulted' = faulted
          /\ main' = main]_vars

\* C31's case: an Azure worker skipped a resource of a type outside the
\* schema, sent the record of a resource with the ID /g/a, and the run
\* returned with the group and that resource only
C31_Witness ==
  /\ variant = "azure"
  /\ main = "returned"
  /\ Len(skipLog) = 1
  /\ seen[1] = {ResA}
  /\ Len(sent[1]) = 1
  /\ Len(imports) = 2

\* the alias of a namespace, where the schema's C# block has one: s3 is S3
AliasOf(ns) == IF ns = <<"s", "3">> THEN <<"S", "3">> ELSE ns

\* C32: the TypeName of the listing call for the catalog key pkg:ns:kind is
\* "AWS::" + alias(ns) + "::" + kind when the alias table has ns and "AWS::" +
\* ns + "::" + kind otherwise, in every run and for every worker, and the
\* records of the type carry the key itself as their type token.
C32_TypeMapperDeterministic ==
  /\ \A x \in typeNames :
       x[2] = <<"A","W","S",":",":">> \o AliasOf(x[1][2]) \o <<":",":">> \o x[1][3]
  /\ \A x, y \in typeNames : x[1] = y[1] => x[2] = y[2]
  /\ variant \in {"aws", "insights"} =>
       /\ { x[1] : x \in typeNames } = listCalls
       /\ \A i \in 1..Len(imports) :
            /\ imports[i].Type \in listCalls
            /\ <<imports[i].Type, imports[i].ID>> \in listed

\* C32's case: an AWS run listed a type whose namespace has an alias (s3) and
\* one whose namespace has none (ec2), and returned a record of each
C32_Witness ==
  /\ variant = "aws"
  /\ main = "returned"
  /\ <<TypeX, <<"A","W","S",":",":","S","3",":",":","B">>>> \in typeNames
  /\ <<TypeY, <<"A","W","S",":",":","e","c","2",":",":","V">>>> \in typeNames
  /\ \E i, j \in 1..Len(imports) : imports[i].Type = TypeX /\ imports[j].Type = TypeY

\* C33: in ReadMode the ReadResource call of a record carries a parent option
\* only if a ReadResource call for the group record with that ID was made
\* before it and returned no error.
C33_ParentOnlyIfRegistered ==
  mode = "read" =>
    \A i \in 1..Len(calls) :
      parentOption(i) # <<>> =>
        \E j \in 1..(i - 1) :
          /\ received[j].Type = ResourceGroupType
          /\ received[j].ID = received[i].Parent
          /\ j \notin callErrs

\* C33's failing case: the ReadResource call of the only group failed, and the
\* call of a resource of that group was made with the group as its parent
C33_Witness ==
  /\ variant = "azure"
  /\ mode = "read"
  /\ main = "returned"
  /\ Len(calls) = 2
  /\ callErrs = {1}
  /\ received[1].Type = ResourceGroupType
  /\ received[2].Parent = received[1].ID
  /\ parentOption(2) = <<received[1].ID>>

\* C34: in the Azure program the first pass is over before the second starts:
\* once a goroutine of a resource group has been started, every group record
\* of resourceGroups has been sent on importChan, in order and ahead of
\* everything else, and every record with a parent comes after all of them.
C34_TwoPhase ==
  variant = "azure" =>
    /\ (spawned > 0 \/ \E w \in Workers : wpc[w] # "idle") =>
         /\ main \notin {"start", "publish"}
         /\ Len(PublishOrder) >= Len(resourceGroups)
         /\ \A i \in 1..Len(resourceGroups) : PublishOrder[i] = resourceGroups[i]
    /\ \A i \in 1..Len(PublishOrder) :
         PublishOrder[i].Parent # <<>> => i > Len(resourceGroups)

\* C34's case: two groups were found and sent, both goroutines were started,
\* and the record of a resource was sent as the third record
C34_Witness ==
  /\ variant = "azure"
  /\ Len(resourceGroups) = 2
  /\ spawned = 2
  /\ Len(PublishOrder) = 3
  /\ PublishOrder[3].Parent # <<>>

\* what "Total resources: %d" prints: totalResources in
\* pulumi-insights-import, len(imports.Resources) in the other programs
reportedCount == IF variant = "insights" THEN totalResources ELSE Len(imports)

\* C35: when the run has printed its count, the count is the number of
\* records of imports.Resources.
C35_CountIsInventorySize ==
  main \in {"returned", "written", "finished"} => reportedCount = Len(imports)

\* C35's failing case: pulumi-insights-import listed an item with an
\* Identifier and one without, printed 2 and wrote a file with one record
C35_Witness ==
  /\ variant = "insights"
  /\ main = "written"
  /\ totalResources = 2
  /\ Len(imports) = 1

\* C36: `pulumi import -f import.json` runs at most once, only without
\* --incremental and not in ReadMode, and only from the state in which the
\* loop over the catalog has ended and writeImportFile has returned nil.
C36_BulkImportOnlyAfterWrite ==
  /\ [](/\ bulk <= 1
        /\ mode \in {"incremental", "read"} => bulk = 0
        /\ bulk = 1 => /\ mode = "import"
                       /\ main \in {"finished", "crashed"}
                       /\ wpc[1] = "next"
                       /\ widx[1] > Len(pkgChunks[1]))
  /\ [][bulk' # bulk =>
          /\ bulk' = bulk + 1
          /\ main = "written"
          /\ mode = "import"
          /\ imports' = imports]_vars

\* C36's case: pulumi-insights-import without --incremental listed two
\* resources, wrote the file and ran the bulk import, which succeeded
C36_Witness ==
  /\ variant = "insights"
  /\ mode = "import"
  /\ main = "finished"
  /\ bulk = 1
  /\ Len(imports) = 2

\* C37: in the AWS engine no two records of imports.Resources have the same
\* Type and the same Name, at any time and so in the Inventory it returns.
C37_AwsNamesUnique ==
  variant = "aws" =>
    \A i, j \in 1..Len(imports) :
      (imports[i].Type = imports[j].Type /\ imports[i].Name = imports[j].Name) => i = j

\* C37's case: the listing of a type returned the identifiers "a" and "a-",
\* whose names would be the same, and the run returned one record
C37_Witness ==
  /\ variant = "aws"
  /\ main = "returned"
  /\ \E k \in catalog : {<<k, <<"a">>>>, <<k, <<"a", "-">>>>} \subseteq listed
  /\ Len(imports) = 1

\* C38: in the Azure program the loop that sends the group records is never
\* blocked: while a group is still to be sent the buffer of importChan has
\* room, and the loop gets to its end with all groups in the buffer; when no
\* group was found the channel is closed once and the run returns an empty
\* imports.Resources.
C38_GroupPublishNeverBlocks ==
  /\ [](main = "publish" =>
          /\ ~closed
          /\ Len(queue) <= Len(resourceGroups)
          /\ Len(queue) < Len(resourceGroups) => Len(queue) < Capacity)
  /\ (main = "publish") ~> (main = "spawn" /\ queue = resourceGroups)
  /\ (main = "publish" /\ resourceGroups = <<>>) ~>
       (main = "returned" /\ imports = <<>> /\ closeCount = 1)

\* C38's case: the first pass found no group, no goroutine was started, the
\* channel was closed and the run returned an empty imports.Resources
C38_Witness ==
  /\ variant = "azure"
  /\ main = "returned"
  /\ resourceGroups = <<>>
  /\ chunks = 0
  /\ closed
  /\ published = 0
  /\ imports = <<>>

\* C39: after a response with status 500 the retryer says no, whatever the
\* default retryer says; after any other failed response it says what the
\* default retryer says; a request is sent again only after the retryer said
\* yes, never after a 500, and at most 1000 times.
C39_RetryPolicy ==
  /\ [](/\ rstep \in {"decided", "failed"} =>
             /\ status = 500 => ~shouldRetry
             /\ status # 500 => shouldRetry = defaultRetry
        /\ rstep = "failed" => (status = 500 \/ ~defaultRetry \/ retryCount = 1000)
        /\ retryCount <= 1000)
  /\ [][retryCount' # retryCount =>
          /\ retryCount' = retryCount + 1
          /\ status # 500
          /\ defaultRetry
          /\ retryCount < 1000]_vars

\* C39's case: the request was retried twice, its third attempt got a 500,
\* the default retryer would retry it, and the request returned its error
C39_Witness ==
  /\ rstep = "failed"
  /\ status = 500
  /\ defaultRetry
  /\ ~shouldRetry
  /\ retryCount = 2
====
